---- MODULE Spec2Model ----
(***************************************************************************)
(* CodeSync server (src/server/index.js, second listing, lines 280-790):   *)
(* the room registry, the socket.io event handlers and the code-execution  *)
(* adapters built on limitedSpawn; and the CodeEditor component of the     *)
(* browser (src/unnamed/part_000) with useSocket's emitters.               *)
(*                                                                         *)
(* JavaScript values are tagged records [t, v]: t is the typeof tag and v  *)
(* the content.  A string's content is a tuple of tokens, a token being    *)
(* either a whitespace run (" ") or a word, so that String.trim() is       *)
(* computed and not assumed.                                               *)
(***************************************************************************)
EXTENDS Integers, Sequences, FiniteSets, TLC

\* ------------------------------------------------------------------ bounds
MaxTicks == 1              \* times the clock advances
MaxInFlight == 2           \* run-code requests in progress at one time
MaxDirs == 2               \* temporary directories that exist at one time
MaxChunks == 3             \* output chunks one request's children write
MaxDays == 2               \* times the clock advances by a whole day
MaxWaits == 10             \* times the browser's clock advances, by 50 ms each
MaxRemote == 2             \* room-state and code-update events the browser receives
MaxEdits == 1              \* edits the user of one socket makes

\* ------------------------------------------------------- program constants
EXECUTION_TIMEOUT_MS == 5000
MAX_OUTPUT_BYTES == 65536
maxAge == 86400000         \* 24 * 60 * 60 * 1000
debounceMs == 300          \* the delay of the editor's emission timer
receivingMs == 100         \* the delay after which isReceivingUpdate is reset

\* --------------------------------------------------------------- JS values
Undefined == [t |-> "undefined", v |-> <<>>]
Null == [t |-> "null", v |-> <<>>]
Str(s) == [t |-> "string", v |-> s]
Num(s) == [t |-> "number", v |-> s]

\* JavaScript truthiness of the values used here: undefined and '' are
\* falsy, a non-empty string and a non-zero number are truthy.
Truthy(x) == \/ x.t = "string" /\ x.v # <<>>
             \/ x.t = "number" /\ x.v # <<"0">>

IsSpace(tok) == tok = " "

RECURSIVE TrimStart(_)
TrimStart(s) == IF s # <<>> /\ IsSpace(Head(s)) THEN TrimStart(Tail(s)) ELSE s

RECURSIVE TrimEnd(_)
TrimEnd(s) == IF s # <<>> /\ IsSpace(s[Len(s)])
              THEN TrimEnd(SubSeq(s, 1, Len(s) - 1)) ELSE s

\* String.prototype.trim
Trim(x) == Str(TrimEnd(TrimStart(x.v)))

\* ------------------------------------------------------------ input domains
Sockets == {"s1", "s2"}
R1 == Str(<<"R1">>)
R2 == Str(<<"R2">>)
RoomIds == {R1, R2}

Ann == Str(<<" ", "ann">>)
Bob == Str(<<"bob">>)
Blank == Str(<<" ">>)
Empty == Str(<<>>)
NotAString == Num(<<"7">>)

JavaScript == Str(<<"javascript">>)
TypeScript == Str(<<"typescript">>)
Python == Str(<<"python">>)
Java == Str(<<"java">>)
Cpp == Str(<<"cpp">>)
Ruby == Str(<<"ruby">>)

CodeX == Str(<<"x">>)
CodeY == Str(<<"y">>)

\* A payload is either not an object (obj = FALSE: destructuring it throws)
\* or an object whose absent fields read as undefined.
Payload(rid, un, co, la) ==
  [obj |-> TRUE, roomId |-> rid, username |-> un, code |-> co, language |-> la]
NoPayload ==
  [obj |-> FALSE, roomId |-> Undefined, username |-> Undefined,
   code |-> Undefined, language |-> Undefined]

\* The username a socket joins with (" ann" needs trimming), and the odd
\* ones: " " trims to '', 7 is not a string.
NameOf(s) == IF s = "s1" THEN Ann ELSE Bob
OddNames == {Blank, NotAString}

InvalidJoinPayloads ==
  { Payload(Undefined, Bob, Undefined, Undefined),
    Payload(Empty, Bob, Undefined, Undefined),
    Payload(R1, Undefined, Undefined, Undefined),
    Payload(R1, Empty, Undefined, Undefined),
    NoPayload }

PlainJoinPayloads(s) ==
  { Payload(r, NameOf(s), Undefined, Undefined) : r \in RoomIds }

OddJoinPayloads ==
  { Payload(r, u, Undefined, Undefined) : r \in RoomIds, u \in OddNames }

\* Edits are addressed to R1 (a live room or not) or carry no usable room id.
CodeChangePayloads ==
  { Payload(R1, Undefined, CodeX, Undefined),
    Payload(R1, Undefined, Undefined, Python),
    Payload(Undefined, Undefined, CodeX, Undefined),
    Payload(Empty, Undefined, CodeX, Undefined),
    NoPayload }

LanguageChangePayloads ==
  { Payload(R1, Undefined, Undefined, Python),
    Payload(R1, Undefined, Undefined, Undefined),
    Payload(Undefined, Undefined, Undefined, Python),
    Payload(Empty, Undefined, Undefined, Python),
    NoPayload }

SupportedLanguages == {JavaScript, TypeScript, Python, Java, Cpp}

\* run-code requests that fail validation
InvalidRunPayloads ==
  { Payload(Undefined, Undefined, CodeX, JavaScript),
    Payload(Empty, Undefined, CodeX, JavaScript),
    Payload(R1, Undefined, Undefined, JavaScript),
    Payload(R1, Undefined, NotAString, JavaScript),
    Payload(R1, Undefined, CodeX, Undefined),
    Payload(R1, Undefined, CodeX, Empty),
    NoPayload }

\* run-code requests that pass validation, for R1, live or not
RunPayloads(langs) ==
  { Payload(R1, Undefined, c, l) : c \in {CodeX, Empty}, l \in langs }

\* --------------------------------------------------------------- variables
VARIABLES
  now,          \* Date.now() / new Date()
  rooms,        \* const rooms = new Map(): room id -> room
  userSockets,  \* const userSockets = new Map(): socket id -> {connectedAt}
  sockets,      \* transport state of each socket: "idle", "connected", "disconnected"
  socketRooms,  \* socket.rooms without the socket's own id
  runs,         \* the run-code invocations: request number -> its closure state
  fs,           \* the temporary directories that exist: directory -> file -> text
  last,         \* the handler or continuation that ran in the last step
  out,          \* the events emitted by the last step: [ev, to, payload]
  client,       \* one browser's CodeEditor component: its refs, state and timers
  net           \* the browsers of the two sockets and the events in flight

vars == <<now, rooms, userSockets, sockets, socketRooms, runs, fs, last, out,
          client, net>>

\* ------------------------------------------------------------------ helpers
\* The recipients of socket.emit, socket.to(room).emit and io.to(room).emit.
Group(sr, roomId) == { s \in Sockets : roomId \in sr[s] }
ToSocket(s) == {s}
ToOthers(sr, roomId, s) == Group(sr, roomId) \ {s}
ToAll(sr, roomId) == Group(sr, roomId)

Msg(ev, to, payload) == [ev |-> ev, to |-> to, payload |-> payload]

\* an error sent with io.emit instead of socket.emit
ErrorMsg_Broadcast(s, text) == Msg("error", Sockets, [message |-> text])

ErrorMsg(s, text) == Msg("error", ToSocket(s), [message |-> text])

Step(op, s, id) == [op |-> op, socket |-> s, req |-> id]

\* The seed text of a new room; the template embeds the room id.
DefaultCode(roomId) == Str(<<"// Welcome to CodeSync">> \o roomId.v)

\* a registry that seeds new rooms with an empty buffer
NewRoom_EmptySeed(roomId) ==
  [id |-> roomId, code |-> Empty, language |-> JavaScript,
   participants |-> << >>, createdAt |-> now, lastActivity |-> now]

NewRoom(roomId) ==
  [id |-> roomId, code |-> DefaultCode(roomId), language |-> JavaScript,
   participants |-> << >>, createdAt |-> now, lastActivity |-> now]

\* Map.set / Map.delete on a function
MapSet(m, k, val) == [x \in DOMAIN m \cup {k} |-> IF x = k THEN val ELSE m[x]]
MapDelete(m, k) == [x \in DOMAIN m \ {k} |-> m[x]]

\* a registry whose lookup installs a new room on every call
getOrCreateRoom_AlwaysNew(rs, roomId) == MapSet(rs, roomId, NewRoom(roomId))

\* getOrCreateRoom: the registry after the call
getOrCreateRoom(rs, roomId) ==
  IF roomId \in DOMAIN rs THEN rs ELSE MapSet(rs, roomId, NewRoom(roomId))

\* participant?.username || 'Unknown'
UsernameOrUnknown(room, s) ==
  IF s \in DOMAIN room.participants /\ Truthy(room.participants[s].username)
  THEN room.participants[s].username
  ELSE Str(<<"Unknown">>)

\* ------------------------------------------------------------------- client
\* The CodeEditor component of one browser that is connected and has joined
\* R1.  clock is the browser's time in ms.  timeoutRef is the timer that
\* handleCodeChange set last: pending until it fires or is cleared, with
\* the text and language its closure captured.  resets are the due times
\* of the timers that will clear isReceivingUpdate.  typed (the user's
\* latest edit and its time), emitted (the latest code-change sent, and how
\* many were sent) and received record what happened, for the properties.
\* owed are the change notifications the editor has yet to deliver for
\* texts the component applied: the text and the latest time it may come.
NoTimer == [pending |-> FALSE, due |-> 0, code |-> Undefined, language |-> Undefined]
NoEdit == [at |-> -1, value |-> Undefined]
NoEmission == [count |-> 0, at |-> -1, code |-> Undefined]

NewClient ==
  [clock |-> 0, code |-> Empty, language |-> JavaScript, timeoutRef |-> NoTimer,
   isReceivingUpdate |-> FALSE, resets |-> {}, isConnected |-> TRUE,
   typed |-> NoEdit, emitted |-> NoEmission, received |-> 0, owed |-> {}]

\* handleCodeChange: nothing happens while isReceivingUpdate is set or for
\* an undefined value; else the pending timer is cleared and a new one set
handleCodeChange(c, value) ==
  IF c.isReceivingUpdate \/ value = Undefined THEN c
  ELSE [c EXCEPT !.code = value,
                 !.timeoutRef = [pending |-> TRUE, due |-> c.clock + debounceMs,
                                 code |-> value, language |-> c.language]]

\* handleCodeUpdate: the remote text replaces the local one, the flag is
\* set and a timer is started that will clear it
handleCodeUpdate(c, data) ==
  [c EXCEPT !.isReceivingUpdate = TRUE,
            !.code = data.code,
            !.language = IF Truthy(data.language) THEN data.language ELSE @,
            !.resets = @ \cup {c.clock + receivingMs}]

\* emitCodeChange: the events the socket sends
emitCodeChange(c, code, language) ==
  IF c.isConnected
  THEN {Msg("code-change", {"server"},
            [roomId |-> R1, code |-> code, language |-> language])}
  ELSE {}

\* a timer whose time has come runs before the clock moves on
TimerDue(c) ==
  \/ c.timeoutRef.pending /\ c.timeoutRef.due <= c.clock
  \/ \E d \in c.resets : d <= c.clock

ClientStep(op) ==
  /\ last' = Step(op, "client", 0)
  /\ UNCHANGED <<now, rooms, userSockets, sockets, socketRooms, runs, fs, net>>

\* 50 ms pass in the browser
Wait ==
  /\ client.clock + 50 <= MaxWaits * 50
  /\ ~TimerDue(client)
  /\ client' = [client EXCEPT !.clock = @ + 50]
  /\ out' = {}
  /\ ClientStep("wait")

\* the user edits the text, less than 300 ms after the previous edit:
\* Monaco calls onChange with the new text
LocalEdit(value) ==
  /\ client.typed = NoEdit \/ client.clock - client.typed.at < debounceMs
  /\ client' = [handleCodeChange(client, value) EXCEPT
                  !.typed = [at |-> client.clock, value |-> value]]
  /\ out' = {}
  /\ ClientStep("edit")

\* the timer set by handleCodeChange fires
DebounceFires ==
  /\ client.timeoutRef.pending /\ client.timeoutRef.due <= client.clock
  /\ out' = emitCodeChange(client, client.timeoutRef.code, client.timeoutRef.language)
  /\ client' = [client EXCEPT
                  !.timeoutRef.pending = FALSE,
                  !.emitted = IF out' = {} THEN @
                              ELSE [count |-> @.count + 1, at |-> client.clock,
                                    code |-> client.timeoutRef.code]]
  /\ ClientStep("debounce")

\* socket.on('code-update'): another participant's edit arrives
RemoteUpdate(data) ==
  /\ client.received < MaxRemote
  /\ client' = [handleCodeUpdate(client, data) EXCEPT !.received = @ + 1]
  /\ out' = {}
  /\ ClientStep("code-update")

\* a timer set by handleCodeUpdate fires
ResetFires(d) ==
  /\ d \in client.resets /\ d <= client.clock
  /\ client' = [client EXCEPT !.isReceivingUpdate = FALSE, !.resets = @ \ {d}]
  /\ out' = {}
  /\ ClientStep("reset")

\* handleRoomState: the room's text and language replace the local ones,
\* the flag is set and a timer is started that will clear it
handleRoomState(c, data) ==
  [c EXCEPT !.isReceivingUpdate = TRUE,
            !.code = data.code,
            !.language = data.language,
            !.resets = @ \cup {c.clock + receivingMs}]

\* --------------------------------------------------- browsers and the server
\* One browser per socket, each with its CodeEditor component (peers), and
\* the events in flight: toServer[s] are the code-change events socket s has
\* sent and the server has not handled yet, toClient[s] the room-state and
\* code-update events sent to s that its browser has not handled yet, both
\* in the order sent.  joined[s]: the component has mounted and sent its
\* join-room.  isLoading[s]: no room-state has arrived yet, the editor is
\* not rendered.  edits[s]: how many edits the user of s has made.
NewNet ==
  [peers |-> [s \in Sockets |-> NewClient],
   joined |-> [s \in Sockets |-> FALSE],
   isLoading |-> [s \in Sockets |-> TRUE],
   edits |-> [s \in Sockets |-> 0],
   toServer |-> [s \in Sockets |-> << >>],
   toClient |-> [s \in Sockets |-> << >>]]

\* The events of one handler run that a CodeEditor listens to, appended to
\* the queues of their recipients.
EditorEvents == {"room-state", "code-update"}

Route(n, msgs) ==
  [n EXCEPT !.toClient =
     [s \in Sockets |->
        LET mine == { m \in msgs : m.ev \in EditorEvents /\ s \in m.to }
        IN  IF mine = {} THEN n.toClient[s]
            ELSE Append(n.toClient[s], CHOOSE m \in mine : TRUE)]]

\* ------------------------------------------------------------------ gateway
Init ==
  /\ client = NewClient
  /\ net = NewNet
  /\ now = 0
  /\ rooms = << >>
  /\ userSockets = << >>
  /\ sockets = [s \in Sockets |-> "idle"]
  /\ socketRooms = [s \in Sockets |-> {}]
  /\ runs = << >>
  /\ fs = << >>
  /\ last = Step("init", "", 0)
  /\ out = {}

\* Time passes between two callbacks.
Tick ==
  /\ now + EXECUTION_TIMEOUT_MS <= MaxTicks * EXECUTION_TIMEOUT_MS
  /\ now' = now + EXECUTION_TIMEOUT_MS
  /\ last' = Step("tick", "", 0)
  /\ out' = {}
  /\ UNCHANGED <<rooms, userSockets, sockets, socketRooms, runs, fs, client, net>>

\* io.on('connection')
Connect(s) ==
  /\ sockets[s] = "idle"
  /\ sockets' = [sockets EXCEPT ![s] = "connected"]
  /\ userSockets' = MapSet(userSockets, s, [connectedAt |-> now])
  /\ last' = Step("connection", s, 0)
  /\ out' = {}
  /\ UNCHANGED <<now, rooms, socketRooms, runs, fs, client, net>>

\* socket.on('join-room'): the handler
OnJoinRoom(s, data) ==
  /\ sockets[s] = "connected"
  /\ last' = Step("join-room", s, 0)
  /\ UNCHANGED <<now, userSockets, sockets, runs, fs, client>>
  /\ IF ~data.obj
     THEN \* destructuring throws, caught by the handler
          /\ out' = {ErrorMsg(s, "Failed to join room")}
          /\ UNCHANGED <<rooms, socketRooms>>
     ELSE IF ~Truthy(data.roomId) \/ ~Truthy(data.username)
     THEN /\ out' = {ErrorMsg(s, "Room ID and username are required")}
          /\ UNCHANGED <<rooms, socketRooms>>
     ELSE LET roomId == data.roomId
              rs1 == getOrCreateRoom(rooms, roomId)
              sr1 == [socketRooms EXCEPT ![s] = {roomId}]
          IN  /\ socketRooms' = sr1
              /\ IF data.username.t # "string"
                 THEN \* username.trim is not a function: thrown after the
                      \* room was created and the socket joined
                      /\ rooms' = rs1
                      /\ out' = {ErrorMsg(s, "Failed to join room")}
                 ELSE LET participant ==
                            [id |-> s, username |-> Trim(data.username),
                             joinedAt |-> now, lastSeen |-> now]
                          room1 == [rs1[roomId] EXCEPT
                                      !.participants = MapSet(@, s, participant),
                                      !.lastActivity = now]
                      IN  /\ rooms' = [rs1 EXCEPT ![roomId] = room1]
                          /\ out' =
                               { Msg("room-state", ToSocket(s),
                                     [code |-> room1.code,
                                      language |-> room1.language,
                                      participants |-> room1.participants]),
                                 Msg("user-joined", ToOthers(sr1, roomId, s),
                                     [user |-> participant,
                                      participants |-> room1.participants]) }

\* a join-room from a socket whose browser is not modelled: the events
\* emitted are recorded in out and delivered to no editor
JoinRoom(s, data) == OnJoinRoom(s, data) /\ UNCHANGED net

\* a handler that appends the received text to the buffer
AppliedCode_Merged(room, data) ==
  IF data.code # Undefined /\ data.code.t = "string" /\ room.code.t = "string"
  THEN Str(room.code.v \o data.code.v)
  ELSE room.code

\* if (code !== undefined) room.code = code
AppliedCode(room, data) ==
  IF data.code # Undefined THEN data.code ELSE room.code

\* a handler that accepts edits from the room's participants only
OnCodeChange_ParticipantsOnly(s, data) ==
  /\ sockets[s] = "connected"
  /\ last' = Step("code-change", s, 0)
  /\ UNCHANGED <<now, userSockets, sockets, socketRooms, runs, fs, client>>
  /\ IF ~data.obj
     THEN /\ out' = {ErrorMsg(s, "Failed to update code")}
          /\ UNCHANGED rooms
     ELSE IF data.roomId \notin DOMAIN rooms
     THEN /\ out' = {ErrorMsg(s, "Room not found")}
          /\ UNCHANGED rooms
     ELSE IF s \notin DOMAIN rooms[data.roomId].participants
     THEN /\ out' = {ErrorMsg(s, "Not in room")}
          /\ UNCHANGED rooms
     ELSE LET room == rooms[data.roomId]
              room1 == [room EXCEPT
                          !.code = AppliedCode(room, data),
                          !.language = IF Truthy(data.language) THEN data.language ELSE @,
                          !.lastActivity = now,
                          !.participants = [@ EXCEPT ![s].lastSeen = now]]
          IN  /\ rooms' = [rooms EXCEPT ![data.roomId] = room1]
              /\ out' = { Msg("code-update", ToOthers(socketRooms, data.roomId, s),
                              [code |-> room1.code, language |-> room1.language,
                               updatedBy |-> UsernameOrUnknown(room1, s)]) }

\* socket.on('code-change'): the handler
OnCodeChange(s, data) ==
  /\ sockets[s] = "connected"
  /\ last' = Step("code-change", s, 0)
  /\ UNCHANGED <<now, userSockets, sockets, socketRooms, runs, fs, client>>
  /\ IF ~data.obj
     THEN /\ out' = {ErrorMsg(s, "Failed to update code")}
          /\ UNCHANGED rooms
     ELSE IF data.roomId \notin DOMAIN rooms
     THEN /\ out' = {ErrorMsg(s, "Room not found")}
          /\ UNCHANGED rooms
     ELSE LET roomId == data.roomId
              room == rooms[roomId]
              code1 == AppliedCode(room, data)
              lang1 == IF Truthy(data.language) THEN data.language ELSE room.language
              parts1 == IF s \in DOMAIN room.participants
                        THEN [room.participants EXCEPT ![s].lastSeen = now]
                        ELSE room.participants
              room1 == [room EXCEPT !.code = code1, !.language = lang1,
                                    !.lastActivity = now, !.participants = parts1]
          IN  /\ rooms' = [rooms EXCEPT ![roomId] = room1]
              /\ out' = { Msg("code-update", ToOthers(socketRooms, roomId, s),
                              [code |-> room1.code, language |-> room1.language,
                               updatedBy |-> UsernameOrUnknown(room1, s)]) }

\* a code-change from a socket whose browser is not modelled
CodeChange(s, data) == OnCodeChange(s, data) /\ UNCHANGED net

\* socket.on('language-change')
LanguageChange(s, data) ==
  /\ sockets[s] = "connected"
  /\ last' = Step("language-change", s, 0)
  /\ UNCHANGED <<now, userSockets, sockets, socketRooms, runs, fs, client, net>>
  /\ IF ~data.obj
     THEN /\ out' = {ErrorMsg(s, "Failed to update language")}
          /\ UNCHANGED rooms
     ELSE IF data.roomId \notin DOMAIN rooms
     THEN /\ out' = {ErrorMsg(s, "Room not found")}
          /\ UNCHANGED rooms
     ELSE LET roomId == data.roomId
              room == rooms[roomId]
          IN  /\ rooms' = [rooms EXCEPT ![roomId] =
                             [room EXCEPT !.language = data.language,
                                          !.lastActivity = now]]
              /\ out' = { Msg("language-update", ToOthers(socketRooms, roomId, s),
                              [language |-> data.language,
                               updatedBy |-> UsernameOrUnknown(room, s)]) }

\* a disconnect handler that leaves the emptied rooms to the hourly sweep
DisconnectRooms_NoDelete(rs, s) ==
  [r \in DOMAIN rs |->
     IF s \in DOMAIN rs[r].participants
     THEN [rs[r] EXCEPT !.participants = MapDelete(@, s), !.lastActivity = now]
     ELSE rs[r]]

\* a disconnect handler that stops at the first room that lists the socket
DisconnectRooms_FirstOnly(rs, s) ==
  LET listed == { r \in DOMAIN rs : s \in DOMAIN rs[r].participants }
      first == IF listed = {} THEN {} ELSE {CHOOSE r \in listed : TRUE}
      emptied == { r \in first : DOMAIN rs[r].participants = {s} }
  IN  [r \in DOMAIN rs \ emptied |->
         IF r \in first
         THEN [rs[r] EXCEPT !.participants = MapDelete(@, s), !.lastActivity = now]
         ELSE rs[r]]

\* The registry after the disconnect handler's rooms.forEach for socket s:
\* s is removed from every room that lists it, and a room left empty by
\* that removal is deleted.
DisconnectRooms(rs, s) ==
  LET emptied == { r \in DOMAIN rs : DOMAIN rs[r].participants = {s} }
  IN  [r \in DOMAIN rs \ emptied |->
         IF s \in DOMAIN rs[r].participants
         THEN [rs[r] EXCEPT !.participants = MapDelete(@, s), !.lastActivity = now]
         ELSE rs[r]]

\* socket.on('disconnect'); socket.io has emptied socket.rooms before it runs
Disconnect(s) ==
  /\ sockets[s] = "connected"
  /\ sockets' = [sockets EXCEPT ![s] = "disconnected"]
  /\ userSockets' = MapDelete(userSockets, s)
  /\ socketRooms' = [socketRooms EXCEPT ![s] = {}]
  /\ rooms' = DisconnectRooms(rooms, s)
  /\ out' = { Msg("user-left", ToOthers(socketRooms', r, s),
                  [user |-> rooms[r].participants[s],
                   participants |-> MapDelete(rooms[r].participants, s)]) :
              r \in { x \in DOMAIN rooms : s \in DOMAIN rooms[x].participants } }
  /\ last' = Step("disconnect", s, 0)
  /\ UNCHANGED <<now, runs, fs, client, net>>

\* ------------------------------------------------------------- limitedSpawn
ENOENT == Str(<<"ENOENT">>)
SIGKILL == Str(<<"SIGKILL">>)
Zero == Num(<<"0">>)
One == Num(<<"1">>)
\* the code 'close' reports after a failed spawn: the negative errno
ErrnoENOENT == Num(<<"-2">>)

\* A Buffer is a sequence of pieces, piece k holding the bytes kept of the
\* k-th chunk the request's children wrote; a string is a sequence of pieces
\* of decoded output and of literal text.
Bytes(k, n) == [chunk |-> k, bytes |-> n]
Chars(k, n) == [chunk |-> k, chars |-> n, lit |-> ""]
Literal(text) == [chunk |-> 0, chars |-> 0, lit |-> text]

RECURSIVE Length(_)
Length(buf) == IF buf = <<>> THEN 0 ELSE Head(buf).bytes + Length(Tail(buf))

Max(a, b) == IF a >= b THEN a ELSE b

\* chunk.slice(0, n)
Slice(piece, n) == [piece EXCEPT !.bytes = IF n < @ THEN n ELSE @]

\* Buffer.concat([buf, piece])
Concat(buf, piece) == IF piece.bytes = 0 THEN buf ELSE Append(buf, piece)

\* a close handler that decodes only the first chunk received
toStringUtf8_FirstChunk(buf) ==
  [i \in 1..(IF buf = <<>> THEN 0 ELSE 1) |-> Chars(buf[i].chunk, buf[i].bytes)]

\* buf.toString('utf8') of single-byte text: one character per byte
toStringUtf8(buf) == [i \in 1..Len(buf) |-> Chars(buf[i].chunk, buf[i].bytes)]

\* the sizes of the chunks a child writes
ChunkSizes == {40000}

\* The closure of one limitedSpawn call, right after spawn() and setTimeout.
\* child: "running" (a process exists), "failed" (spawn found no binary, the
\* 'error' event is pending), "errored" ('error' was emitted), "none".
NewClosure(cmd, cleanup, found) ==
  [cmd |-> cmd, cleanup |-> cleanup, stdout |-> <<>>, stderr |-> <<>>,
   outputTruncated |-> FALSE, timedOut |-> FALSE, spawnError |-> Undefined,
   child |-> IF found THEN "running" ELSE "failed", killed |-> FALSE,
   timer |-> TRUE, spawnedAt |-> now]

NoClosure ==
  [cmd |-> "", cleanup |-> FALSE, stdout |-> <<>>, stderr |-> <<>>,
   outputTruncated |-> FALSE, timedOut |-> FALSE, spawnError |-> Undefined,
   child |-> "none", killed |-> FALSE, timer |-> FALSE, spawnedAt |-> 0]

\* killChild: child.kill('SIGKILL') marks the child killed when a process
\* was there to signal
killChild(c) ==
  IF ~c.killed /\ c.child = "running" THEN [c EXCEPT !.killed = TRUE] ELSE c

\* a stdout handler that flags the overflow but keeps the whole chunk
OnStdout_WholeChunk(c, k, n) ==
  IF Length(c.stdout) + n > MAX_OUTPUT_BYTES
  THEN killChild([c EXCEPT !.stdout = Concat(@, Bytes(k, n)),
                          !.outputTruncated = TRUE])
  ELSE [c EXCEPT !.stdout = Concat(@, Bytes(k, n))]

\* child.stdout.on('data')
OnStdout(c, k, n) ==
  IF Length(c.stdout) + n > MAX_OUTPUT_BYTES
  THEN LET remaining == Max(0, MAX_OUTPUT_BYTES - Length(c.stdout))
       IN  killChild([c EXCEPT !.stdout = Concat(@, Slice(Bytes(k, n), remaining)),
                               !.outputTruncated = TRUE])
  ELSE [c EXCEPT !.stdout = Concat(@, Bytes(k, n))]

\* child.stderr.on('data')
OnStderr(c, k, n) ==
  IF Length(c.stderr) + n > MAX_OUTPUT_BYTES
  THEN LET remaining == Max(0, MAX_OUTPUT_BYTES - Length(c.stderr))
       IN  killChild([c EXCEPT !.stderr = Concat(@, Slice(Bytes(k, n), remaining)),
                               !.outputTruncated = TRUE])
  ELSE [c EXCEPT !.stderr = Concat(@, Bytes(k, n))]

\* a watchdog that kills the child but does not record the timeout
OnTimeout_NoFlag(c) == killChild([c EXCEPT !.timer = FALSE])

\* the setTimeout callback
OnTimeout(c) == killChild([c EXCEPT !.timedOut = TRUE, !.timer = FALSE])

\* child.on('error')
OnError(c) == [c EXCEPT !.spawnError = ENOENT, !.child = "errored"]

\* the payload child.on('close') hands to done()
ClosePayload(c, code, signal) ==
  [exitCode |-> code, signal |-> signal,
   stdout |-> toStringUtf8(c.stdout), stderr |-> toStringUtf8(c.stderr),
   timedOut |-> c.timedOut, outputTruncated |-> c.outputTruncated,
   spawnError |-> c.spawnError]

NoResult ==
  [exitCode |-> Undefined, signal |-> Undefined, stdout |-> <<>>, stderr |-> <<>>,
   timedOut |-> FALSE, outputTruncated |-> FALSE, spawnError |-> Undefined]

\* the object literals runJava and runCpp return when the compiler is missing
FixedResult(text) ==
  [exitCode |-> Null, signal |-> Undefined, stdout |-> <<>>,
   stderr |-> <<Literal(text)>>, timedOut |-> FALSE, outputTruncated |-> FALSE,
   spawnError |-> Undefined]

\* ----------------------------------------------------------------- adapters
\* The first limitedSpawn of each adapter: the command and whether a cleanup
\* function is passed.  process.execPath, the running node binary, is there.
FirstSpawn(language) ==
  CASE language \in {JavaScript, TypeScript} -> [cmd |-> "node", cleanup |-> TRUE]
    [] language = Python -> [cmd |-> "python", cleanup |-> TRUE]
    [] language = Java -> [cmd |-> "javac", cleanup |-> FALSE]
    [] language = Cpp -> [cmd |-> "g++", cleanup |-> FALSE]

Found(cmd) == IF cmd = "node" THEN {TRUE} ELSE BOOLEAN

SpawnNext(cmd, cleanup) == [k |-> "spawn", cmd |-> cmd, cleanup |-> cleanup, result |-> NoResult]
RmThenReturn(result) == [k |-> "rm", cmd |-> "", cleanup |-> FALSE, result |-> result]
Return(result) == [k |-> "return", cmd |-> "", cleanup |-> FALSE, result |-> result]

\* an adapter that forgets to test the compiler's exit code
AfterCompile_RunsAnyway(compile, missing, runCmd) ==
  IF compile.spawnError = ENOENT THEN RmThenReturn(FixedResult(missing))
  ELSE SpawnNext(runCmd, TRUE)

\* runJava / runCpp after the compile step resolved
AfterCompile(compile, missing, runCmd) ==
  IF compile.spawnError = ENOENT THEN RmThenReturn(FixedResult(missing))
  ELSE IF compile.exitCode # Zero THEN RmThenReturn(compile)
  ELSE SpawnNext(runCmd, TRUE)

\* an adapter that tries the alternate interpreter after any failure
AfterPython_RetryOnFailure(res) ==
  IF res.exitCode # Zero THEN SpawnNext("py", TRUE) ELSE Return(res)

\* runPython after the limitedSpawn of python resolved
AfterPython(res) ==
  IF res.spawnError = ENOENT THEN SpawnNext("py", TRUE) ELSE Return(res)

\* What an adapter does when the limitedSpawn of the given phase resolves.
AdapterNext(phase, res) ==
  CASE phase = "node" -> Return(res)
    [] phase = "python" -> AfterPython(res)
    [] phase = "py" -> Return(res)
    [] phase = "javac" -> AfterCompile(res, "javac not found. Install JDK.", "java")
    [] phase = "java" ->
         IF res.spawnError = ENOENT
         THEN Return([res EXCEPT !.stderr =
                        @ \o (IF @ # <<>> THEN <<Literal("\n")>> ELSE <<>>)
                          \o <<Literal("java not found. Install JRE/JDK.")>>])
         ELSE Return(res)
    [] phase = "g++" ->
         IF res.spawnError = ENOENT THEN SpawnNext("clang++", FALSE)
         ELSE AfterCompile(res, "C++ compiler not found (g++/clang++).", "main")
    [] phase = "clang++" ->
         AfterCompile(res, "C++ compiler not found (g++/clang++).", "main")
    [] phase = "main" -> Return(res)

\* ------------------------------------------------------------------ run-code
\* socket.emit on a socket whose connection has closed writes nothing
ToSocketLate(s) == IF sockets[s] = "connected" THEN {s} ELSE {}

\* a run-result that is dropped when the requester has left the room's group
RunResult_IfRequesterPresent(r, durationMs, result) ==
  Msg("run-result",
      IF r.socket \in Group(socketRooms, r.roomId)
      THEN ToAll(socketRooms, r.roomId) ELSE {},
      [roomId |-> r.roomId, language |-> r.language, startedAt |-> r.startedAt,
       durationMs |-> durationMs, exitCode |-> result.exitCode,
       stdout |-> result.stdout, stderr |-> result.stderr,
       timedOut |-> result.timedOut, outputTruncated |-> result.outputTruncated,
       initiatedBy |-> r.initiatedBy])

\* a run-result sent with socket.to(roomId) instead of io.to(roomId)
RunResult_ToOthers(r, durationMs, result) ==
  Msg("run-result", ToOthers(socketRooms, r.roomId, r.socket),
      [roomId |-> r.roomId, language |-> r.language, startedAt |-> r.startedAt,
       durationMs |-> durationMs, exitCode |-> result.exitCode,
       stdout |-> result.stdout, stderr |-> result.stderr,
       timedOut |-> result.timedOut, outputTruncated |-> result.outputTruncated,
       initiatedBy |-> r.initiatedBy])

RunResult(r, durationMs, result) ==
  Msg("run-result", ToAll(socketRooms, r.roomId),
      [roomId |-> r.roomId, language |-> r.language, startedAt |-> r.startedAt,
       durationMs |-> durationMs, exitCode |-> result.exitCode,
       stdout |-> result.stdout, stderr |-> result.stderr,
       timedOut |-> result.timedOut, outputTruncated |-> result.outputTruncated,
       initiatedBy |-> r.initiatedBy])

\* a default case that reports a failed run instead of no run
UnsupportedResult_ExitOne(language) ==
  [exitCode |-> One, signal |-> Undefined, stdout |-> <<>>,
   stderr |-> <<Literal("Execution for language \""), Literal(language.v[1]),
                Literal("\" is not supported yet.")>>,
   timedOut |-> FALSE, outputTruncated |-> FALSE, spawnError |-> Undefined]

UnsupportedResult(language) ==
  [exitCode |-> Null, signal |-> Undefined, stdout |-> <<>>,
   stderr |-> <<Literal("Execution for language \""), Literal(language.v[1]),
                Literal("\" is not supported yet.")>>,
   timedOut |-> FALSE, outputTruncated |-> FALSE, spawnError |-> Undefined]

Requests == 1..MaxInFlight
Dirs == 1..MaxDirs

\* The slot a new request takes, and the directory mkdtemp creates: its
\* random name differs from every directory that exists or is in use.
FreeSlots == Requests \ DOMAIN runs

\* adapters that make their workspace with mkdir under one fixed name
FreeDirs_FixedName == Dirs

FreeDirs == Dirs \ (DOMAIN fs \cup { runs[i].tempDir : i \in DOMAIN runs })
Least(S) == CHOOSE x \in S : \A y \in S : x <= y

\* a handler that runs the program with spawnSync: the callback returns
\* only when the child has exited, with the result already broadcast
RunCode_Blocking(s, data) ==
  /\ sockets[s] = "connected"
  /\ last' = Step("run-code", s, 0)
  /\ UNCHANGED <<now, rooms, userSockets, sockets, socketRooms, fs, runs,
                 client, net>>
  /\ IF ~data.obj \/ ~Truthy(data.roomId) \/ data.code.t # "string"
        \/ ~Truthy(data.language)
     THEN out' = {ErrorMsg(s, "Invalid run request")}
     ELSE IF data.roomId \notin DOMAIN rooms
     THEN out' = {ErrorMsg(s, "Room not found")}
     ELSE out' = { Msg("run-result", ToAll(socketRooms, data.roomId),
                       [roomId |-> data.roomId, language |-> data.language,
                        startedAt |-> now, durationMs |-> 0, exitCode |-> Zero,
                        stdout |-> << >>, stderr |-> << >>, timedOut |-> FALSE,
                        outputTruncated |-> FALSE,
                        initiatedBy |-> UsernameOrUnknown(rooms[data.roomId], s)]) }

\* socket.on('run-code'), up to its first await
RunCode(s, data) ==
  /\ sockets[s] = "connected"
  /\ last' = Step("run-code", s, 0)
  /\ UNCHANGED <<now, rooms, userSockets, sockets, socketRooms, fs, client, net>>
  /\ IF ~data.obj \/ ~Truthy(data.roomId) \/ data.code.t # "string"
        \/ ~Truthy(data.language)
     THEN /\ out' = {ErrorMsg(s, "Invalid run request")}
          /\ UNCHANGED runs
     ELSE IF data.roomId \notin DOMAIN rooms
     THEN /\ out' = {ErrorMsg(s, "Room not found")}
          /\ UNCHANGED runs
     ELSE LET r == [socket |-> s, roomId |-> data.roomId, language |-> data.language,
                    code |-> data.code,
                    initiatedBy |-> UsernameOrUnknown(rooms[data.roomId], s),
                    startedAt |-> now, pc |-> "mkdtemp", phase |-> "",
                    tempDir |-> 0, c |-> NoClosure, res |-> NoResult,
                    chunks |-> 0, rmFailed |-> FALSE]
          IN  IF data.language \in SupportedLanguages
              THEN /\ FreeSlots # {}
                   /\ runs' = MapSet(runs, Least(FreeSlots), r)
                   /\ out' = {}
              ELSE /\ UNCHANGED runs
                   /\ out' = {RunResult(r, 0, UnsupportedResult(data.language))}

\* a handler whose awaits are outside its try block: the rejection is only
\* logged by the process-level unhandledRejection listener
Throw_Unhandled(id, r) ==
  /\ runs' = MapDelete(runs, id)
  /\ out' = {}

\* an await inside the adapter rejected: the handler's catch block
Throw(id, r) ==
  /\ runs' = MapDelete(runs, id)
  /\ out' = {Msg("error", ToSocketLate(r.socket), [message |-> "Failed to run code"])}

\* the adapter returned: the handler measures the time and broadcasts
Finish(id, r, result) ==
  /\ runs' = MapDelete(runs, id)
  /\ out' = {RunResult(r, now - r.startedAt, result)}

\* spawn with { cwd: tempDir }: a working directory that does not exist makes
\* the spawn fail with ENOENT, whether the binary is there or not
CwdExists(dir) == dir \in DOMAIN fs'

\* a limitedSpawn promise resolved with r.res: the adapter goes on
Resolve(id, r) ==
  LET nxt == AdapterNext(r.phase, r.res)
  IN  CASE nxt.k = "spawn" ->
             /\ \E found \in Found(nxt.cmd) :
                  /\ found => CwdExists(r.tempDir)
                  /\ runs' = [runs EXCEPT ![id] =
                               [r EXCEPT !.pc = "child", !.phase = nxt.cmd,
                                         !.c = NewClosure(nxt.cmd, nxt.cleanup, found)]]
             /\ out' = {}
        [] nxt.k = "rm" ->
             /\ runs' = [runs EXCEPT ![id] =
                           [r EXCEPT !.pc = "rm", !.res = nxt.result]]
             /\ out' = {}
        [] nxt.k = "return" -> Finish(id, r, nxt.result)

\* mkdtemp settles
Mkdtemp(id, ok) ==
  /\ id \in DOMAIN runs /\ runs[id].pc = "mkdtemp"
  /\ ok => FreeDirs # {}
  /\ last' = Step("mkdtemp", runs[id].socket, id)
  /\ UNCHANGED <<now, rooms, userSockets, sockets, socketRooms, client, net>>
  /\ IF ok
     THEN /\ fs' = MapSet(fs, Least(FreeDirs), << >>)
          /\ runs' = [runs EXCEPT ![id].pc = "writeFile",
                                   ![id].tempDir = Least(FreeDirs)]
          /\ out' = {}
     ELSE /\ UNCHANGED fs
          /\ Throw(id, runs[id])

\* an adapter that runs the room's stored buffer
WriteFile_RoomBuffer(id, ok) ==
  /\ id \in DOMAIN runs /\ runs[id].pc = "writeFile"
  /\ last' = Step("writeFile", runs[id].socket, id)
  /\ UNCHANGED <<now, rooms, userSockets, sockets, socketRooms, client, net>>
  /\ IF ok
     THEN LET first == FirstSpawn(runs[id].language)
              buffer == IF runs[id].roomId \in DOMAIN rooms
                        THEN rooms[runs[id].roomId].code ELSE Empty
          IN  /\ fs' = [fs EXCEPT ![runs[id].tempDir] = MapSet(@, "source", buffer)]
              /\ \E found \in Found(first.cmd) :
                   runs' = [runs EXCEPT ![id].pc = "child", ![id].phase = first.cmd,
                              ![id].c = NewClosure(first.cmd, first.cleanup, found)]
              /\ out' = {}
     ELSE /\ UNCHANGED fs
          /\ Throw(id, runs[id])

\* writeFile settles; on success the adapter calls its first limitedSpawn
WriteFile(id, ok) ==
  /\ id \in DOMAIN runs /\ runs[id].pc = "writeFile"
  /\ last' = Step("writeFile", runs[id].socket, id)
  /\ UNCHANGED <<now, rooms, userSockets, sockets, socketRooms, client, net>>
  /\ IF ok
     THEN LET first == FirstSpawn(runs[id].language)
          IN  /\ fs' = [fs EXCEPT ![runs[id].tempDir] =
                                  MapSet(@, "source", runs[id].code)]
              /\ \E found \in Found(first.cmd) :
                   runs' = [runs EXCEPT ![id].pc = "child", ![id].phase = first.cmd,
                              ![id].c = NewClosure(first.cmd, first.cleanup, found)]
              /\ out' = {}
     ELSE /\ UNCHANGED fs
          /\ Throw(id, runs[id])

ChildStep(id, op, c1, chunks1) ==
  /\ last' = Step(op, runs[id].socket, id)
  /\ runs' = [runs EXCEPT ![id].c = c1, ![id].chunks = chunks1]
  /\ out' = {}
  /\ UNCHANGED <<now, rooms, userSockets, sockets, socketRooms, fs, client, net>>

\* the child's 'error' event
ChildError(id) ==
  /\ id \in DOMAIN runs /\ runs[id].pc = "child" /\ runs[id].c.child = "failed"
  /\ ChildStep(id, "child-error", OnError(runs[id].c), runs[id].chunks)

\* a chunk arrives on the child's stdout
ChildStdout(id, n) ==
  /\ id \in DOMAIN runs /\ runs[id].pc = "child" /\ runs[id].c.child = "running"
  /\ runs[id].chunks < MaxChunks
  /\ ChildStep(id, "stdout-data",
               OnStdout(runs[id].c, runs[id].chunks + 1, n), runs[id].chunks + 1)

\* a chunk arrives on the child's stderr
ChildStderr(id, n) ==
  /\ id \in DOMAIN runs /\ runs[id].pc = "child" /\ runs[id].c.child = "running"
  /\ runs[id].chunks < MaxChunks
  /\ ChildStep(id, "stderr-data",
               OnStderr(runs[id].c, runs[id].chunks + 1, n), runs[id].chunks + 1)

\* the 5000 ms timer fires
Watchdog(id) ==
  /\ id \in DOMAIN runs /\ runs[id].c.timer
  /\ now >= runs[id].c.spawnedAt + EXECUTION_TIMEOUT_MS
  /\ ChildStep(id, "timeout", OnTimeout(runs[id].c), runs[id].chunks)

\* the code and signal 'close' can report
CloseArgs(c) ==
  CASE c.child = "errored" -> {<<ErrnoENOENT, Null>>}
    [] c.child = "running" /\ c.killed -> {<<Null, SIGKILL>>}
    [] c.child = "running" /\ ~c.killed -> {<<Zero, Null>>, <<One, Null>>}
    [] OTHER -> {}

\* a done() that does not call clearTimeout
ChildClose_KeepsTimer(id, args) ==
  /\ id \in DOMAIN runs /\ runs[id].pc = "child"
  /\ args \in CloseArgs(runs[id].c)
  /\ last' = Step("close", runs[id].socket, id)
  /\ UNCHANGED <<now, rooms, userSockets, sockets, socketRooms, fs, client, net>>
  /\ LET c == runs[id].c
         r == [runs[id] EXCEPT !.res = ClosePayload(c, args[1], args[2]),
                               !.c = [c EXCEPT !.child = "closed"]]
     IN  IF c.cleanup
         THEN /\ runs' = [runs EXCEPT ![id] = [r EXCEPT !.pc = "cleanup"]]
              /\ out' = {}
         ELSE Resolve(id, r)

\* the child's 'close' event: done(payload) clears the timer and starts the
\* cleanup, or resolves at once when there is none
ChildClose(id, args) ==
  /\ id \in DOMAIN runs /\ runs[id].pc = "child"
  /\ args \in CloseArgs(runs[id].c)
  /\ last' = Step("close", runs[id].socket, id)
  /\ UNCHANGED <<now, rooms, userSockets, sockets, socketRooms, fs, client, net>>
  /\ LET c == runs[id].c
         r == [runs[id] EXCEPT !.res = ClosePayload(c, args[1], args[2]),
                               !.c = [c EXCEPT !.timer = FALSE, !.child = "closed"]]
     IN  IF c.cleanup
         THEN /\ runs' = [runs EXCEPT ![id] = [r EXCEPT !.pc = "cleanup"]]
              /\ out' = {}
         ELSE Resolve(id, r)

\* a done() without the try/catch around the cleanup: a rejection escapes
Cleanup_Rethrows(id, ok) ==
  /\ id \in DOMAIN runs /\ runs[id].pc = "cleanup"
  /\ last' = Step("cleanup", runs[id].socket, id)
  /\ UNCHANGED <<now, rooms, userSockets, sockets, socketRooms, client, net>>
  /\ IF ok
     THEN /\ fs' = MapDelete(fs, runs[id].tempDir)
          /\ Resolve(id, runs[id])
     ELSE /\ UNCHANGED fs
          /\ Throw(id, [runs[id] EXCEPT !.rmFailed = TRUE])

\* the cleanup's rm settles; a rejection is swallowed; the promise resolves
Cleanup(id, ok) ==
  /\ id \in DOMAIN runs /\ runs[id].pc = "cleanup"
  /\ last' = Step("cleanup", runs[id].socket, id)
  /\ UNCHANGED <<now, rooms, userSockets, sockets, socketRooms, client, net>>
  /\ fs' = IF ok THEN MapDelete(fs, runs[id].tempDir) ELSE fs
  /\ Resolve(id, [runs[id] EXCEPT !.rmFailed = @ \/ ~ok])

\* the adapter's own await rm(tempDir) settles; a rejection is thrown
Rm(id, ok) ==
  /\ id \in DOMAIN runs /\ runs[id].pc = "rm"
  /\ last' = Step("rm", runs[id].socket, id)
  /\ UNCHANGED <<now, rooms, userSockets, sockets, socketRooms, client, net>>
  /\ IF ok
     THEN /\ fs' = MapDelete(fs, runs[id].tempDir)
          /\ Finish(id, runs[id], runs[id].res)
     ELSE /\ UNCHANGED fs
          /\ Throw(id, [runs[id] EXCEPT !.rmFailed = TRUE])

\* ----------------------------------------------------------- specifications
\* The gateway protocol: every handler with valid and invalid payloads; the
\* run-code requests name no language that starts a process.
Next ==
  \/ Tick
  \/ \E s \in Sockets : Connect(s)
  \/ \E s \in Sockets : \E data \in PlainJoinPayloads(s) \cup InvalidJoinPayloads :
       JoinRoom(s, data)
  \/ \E s \in Sockets : \E data \in CodeChangePayloads : CodeChange(s, data)
  \/ \E s \in Sockets : \E data \in LanguageChangePayloads : LanguageChange(s, data)
  \/ \E s \in Sockets : \E data \in InvalidRunPayloads \cup RunPayloads({Ruby}) :
       RunCode(s, data)
  \/ \E s \in Sockets : Disconnect(s)

Spec == Init /\ [][Next]_vars

\* a request that starts a process is sent while none is in progress
OneAtATime(data) == data.language \in SupportedLanguages => runs = << >>

\* The execution engine: one connection in one room runs code in every
\* language, one request after the other, with every outcome of the file
\* system and of the children.
NextExec ==
  \/ Tick
  \/ Connect("s1")
  \/ JoinRoom("s1", Payload(R1, Ann, Undefined, Undefined))
  \/ \E data \in RunPayloads(SupportedLanguages \cup {Ruby}) :
       OneAtATime(data) /\ RunCode("s1", data)
  \/ \E id \in Requests : \E ok \in BOOLEAN : Mkdtemp(id, ok)
  \/ \E id \in Requests : \E ok \in BOOLEAN : WriteFile(id, ok)
  \/ \E id \in Requests : ChildError(id)
  \/ \E id \in Requests : \E n \in ChunkSizes : ChildStdout(id, n)
  \/ \E id \in Requests : \E n \in ChunkSizes : ChildStderr(id, n)
  \/ \E id \in Requests : Watchdog(id)
  \/ \E id \in Requests : \E args \in {Zero, One, ErrnoENOENT, Null} \X {Null, SIGKILL} :
       ChildClose(id, args)
  \/ \E id \in Requests : \E ok \in BOOLEAN : Cleanup(id, ok)
  \/ \E id \in Requests : \E ok \in BOOLEAN : Rm(id, ok)
  \/ Disconnect("s1")

SpecExec == Init /\ [][NextExec]_vars

\* Room membership: joins with every kind of username, by two connections
\* over two rooms.
NextJoin ==
  \/ Tick
  \/ \E s \in Sockets : Connect(s)
  \/ \E s \in Sockets : \E data \in PlainJoinPayloads(s) \cup InvalidJoinPayloads :
       JoinRoom(s, data)
  \/ \E data \in OddJoinPayloads : JoinRoom("s1", data)
  \/ \E s \in Sockets : Disconnect(s)

SpecJoin == Init /\ [][NextJoin]_vars

\* A request is served while other connections join, leave and time passes;
\* the file system and the node child behave.
NextRun ==
  \/ Tick
  \/ \E s \in Sockets : Connect(s)
  \/ \E s \in Sockets : \E data \in PlainJoinPayloads(s) : JoinRoom(s, data)
  \/ \E s \in Sockets : \E data \in RunPayloads({JavaScript, Ruby}) :
       OneAtATime(data) /\ RunCode(s, data)
  \/ \E id \in Requests : Mkdtemp(id, TRUE)
  \/ \E id \in Requests : WriteFile(id, TRUE)
  \/ \E id \in Requests : Watchdog(id)
  \/ \E id \in Requests : \E args \in {Zero, One, Null} \X {Null, SIGKILL} :
       ChildClose(id, args)
  \/ \E id \in Requests : Cleanup(id, TRUE)
  \/ \E s \in Sockets : Disconnect(s)

SpecRun == Init /\ [][NextRun]_vars

\* The process supervisor: one connection runs one program after the other
\* in every supported language and in one that is not; the children write,
\* fail to spawn, exit, are killed; removing the workspace may fail.
NextSpawn ==
  \/ Tick
  \/ Connect("s1")
  \/ JoinRoom("s1", Payload(R1, Ann, Undefined, Undefined))
  \/ \E l \in SupportedLanguages \cup {Ruby} :
       runs = << >> /\ RunCode("s1", Payload(R1, Undefined, CodeX, l))
  \/ \E id \in Requests : Mkdtemp(id, TRUE)
  \/ \E id \in Requests : WriteFile(id, TRUE)
  \/ \E id \in Requests : ChildError(id)
  \/ \E id \in Requests : \E n \in ChunkSizes : ChildStdout(id, n)
  \/ \E id \in Requests : \E n \in ChunkSizes : ChildStderr(id, n)
  \/ \E id \in Requests : Watchdog(id)
  \/ \E id \in Requests : \E args \in {Zero, One, ErrnoENOENT, Null} \X {Null, SIGKILL} :
       ChildClose(id, args)
  \/ \E id \in Requests : \E ok \in BOOLEAN : Cleanup(id, ok)
  \/ \E id \in Requests : \E ok \in BOOLEAN : Rm(id, ok)

SpecSpawn == Init /\ [][NextSpawn]_vars

\* Shared editing: two connections join and leave the two rooms and edit
\* R1: s1 sends a text together with a language, s2 sends other texts, the
\* empty one and one that is no string included, and a payload without a
\* code field.
EditPayloads(s) ==
  IF s = "s1"
  THEN { Payload(R1, Undefined, CodeX, Python) }
  ELSE { Payload(R1, Undefined, CodeY, Undefined),
         Payload(R1, Undefined, Empty, Undefined),
         Payload(R1, Undefined, NotAString, Undefined),
         Payload(R1, Undefined, Undefined, TypeScript) }

NextEdit ==
  \/ Tick
  \/ \E s \in Sockets : Connect(s)
  \/ \E s \in Sockets : \E data \in PlainJoinPayloads(s) : JoinRoom(s, data)
  \/ \E s \in Sockets : \E data \in EditPayloads(s) : CodeChange(s, data)
  \/ \E s \in Sockets : Disconnect(s)

SpecEdit == Init /\ [][NextEdit]_vars

\* The event loop: while the node children of s1's run requests are
\* running, both connections go on joining, editing, changing the language
\* and leaving, and s1 asks for a further run.
NextLoop ==
  \/ Tick
  \/ \E s \in Sockets : Connect(s)
  \/ \E s \in Sockets : JoinRoom(s, Payload(R1, NameOf(s), Undefined, Undefined))
  \/ \E s \in Sockets : CodeChange(s, Payload(R1, Undefined, CodeX, Undefined))
  \/ \E s \in Sockets : LanguageChange(s, Payload(R1, Undefined, Undefined, Python))
  \/ RunCode("s1", Payload(R1, Undefined, CodeX, JavaScript))
  \/ \E id \in Requests : Mkdtemp(id, TRUE)
  \/ \E id \in Requests : WriteFile(id, TRUE)
  \/ \E id \in Requests : ChildClose(id, <<Zero, Null>>)
  \/ \E id \in Requests : Cleanup(id, TRUE)
  \/ \E s \in Sockets : Disconnect(s)

SpecLoop == Init /\ [][NextLoop]_vars

\* Workspaces: one connection asks for javascript and python runs in quick
\* succession; python may be missing, and removing a workspace may fail.
NextWork ==
  \/ Connect("s1")
  \/ JoinRoom("s1", Payload(R1, Ann, Undefined, Undefined))
  \/ \E l \in {JavaScript, Python} : RunCode("s1", Payload(R1, Undefined, CodeX, l))
  \/ \E id \in Requests : Mkdtemp(id, TRUE)
  \/ \E id \in Requests : WriteFile(id, TRUE)
  \/ \E id \in Requests : ChildError(id)
  \/ \E id \in Requests : \E args \in {Zero, ErrnoENOENT} \X {Null} : ChildClose(id, args)
  \/ \E id \in Requests : \E ok \in BOOLEAN : Cleanup(id, ok)

SpecWork == Init /\ [][NextWork]_vars

\* Programs that print: one connection runs javascript and python programs
\* one after the other; the children write chunks small enough for several
\* to fit under the cap, on either stream, and exit, or run into the
\* watchdog.
SmallChunks == {20000}

NextEcho ==
  \/ Tick
  \/ Connect("s1")
  \/ JoinRoom("s1", Payload(R1, Ann, Undefined, Undefined))
  \/ \E l \in {JavaScript, Python} :
       runs = << >> /\ RunCode("s1", Payload(R1, Undefined, CodeX, l))
  \/ \E id \in Requests : Mkdtemp(id, TRUE)
  \/ \E id \in Requests : WriteFile(id, TRUE)
  \/ \E id \in Requests : ChildError(id)
  \/ \E id \in Requests : \E n \in SmallChunks : ChildStdout(id, n)
  \/ \E id \in Requests : \E n \in SmallChunks : ChildStderr(id, n)
  \/ \E id \in Requests : Watchdog(id)
  \/ \E id \in Requests : \E args \in {Zero, One, ErrnoENOENT, Null} \X {Null, SIGKILL} :
       ChildClose(id, args)
  \/ \E id \in Requests : Cleanup(id, TRUE)

SpecEcho == Init /\ [][NextEcho]_vars

\* The editor of one browser: the user types one series of edits while the
\* texts of another participant arrive.
RemoteTexts == { [code |-> DefaultCode(R1), language |-> JavaScript, updatedBy |-> Bob] }

NextClient ==
  \/ Wait
  \/ \E value \in {CodeX, CodeY} : LocalEdit(value)
  \/ DebounceFires
  \/ \E data \in RemoteTexts : RemoteUpdate(data)
  \/ \E d \in 0..(MaxWaits * 50 + receivingMs) : ResetFires(d)

SpecClient == Init /\ [][NextClient]_vars

\* Faults: two connections share R1 while payloads that make a handler throw
\* arrive (undefined instead of an object, a username that is a number) and
\* while s1's run requests meet a file system that refuses mkdtemp,
\* writeFile or rm.
FaultyJoinPayloads == { NoPayload, Payload(R2, NotAString, Undefined, Undefined) }

NextFault ==
  \/ \E s \in Sockets : Connect(s)
  \/ \E s \in Sockets : JoinRoom(s, Payload(R1, NameOf(s), Undefined, Undefined))
  \/ \E s \in Sockets : \E data \in FaultyJoinPayloads : JoinRoom(s, data)
  \/ \E s \in Sockets : \E data \in {NoPayload, Payload(R1, Undefined, CodeX, Undefined)} :
       CodeChange(s, data)
  \/ \E s \in Sockets : \E data \in {NoPayload, Payload(R1, Undefined, Undefined, Python)} :
       LanguageChange(s, data)
  \/ \E data \in {NoPayload, Payload(R1, Undefined, CodeX, JavaScript),
                    Payload(R1, Undefined, CodeX, Java)} :
       runs = << >> /\ RunCode("s1", data)
  \/ \E id \in Requests : \E ok \in BOOLEAN : Mkdtemp(id, ok)
  \/ \E id \in Requests : \E ok \in BOOLEAN : WriteFile(id, ok)
  \/ \E id \in Requests : ChildError(id)
  \/ \E id \in Requests : \E args \in {Zero, ErrnoENOENT} \X {Null} : ChildClose(id, args)
  \/ \E id \in Requests : Cleanup(id, TRUE)
  \/ \E id \in Requests : \E ok \in BOOLEAN : Rm(id, ok)
  \/ \E s \in Sockets : Disconnect(s)

SpecFault == Init /\ [][NextFault]_vars

\* ------------------------------------- one browser applying remote events
\* socket.on('room-state') / socket.on('code-update'): the component applies
\* the text with setCode; the editor, whose value is that state, will call
\* onChange for the change it makes to its model, at some time within the
\* next 100 ms
Applies(ev, data) ==
  /\ client.received < MaxRemote
  /\ client' = [(IF ev = "room-state" THEN handleRoomState(client, data)
                                      ELSE handleCodeUpdate(client, data))
                  EXCEPT !.received = @ + 1,
                         !.owed = @ \cup {[text |-> data.code,
                                           until |-> client.clock + receivingMs]}]
  /\ out' = {}
  /\ ClientStep(ev)

\* the editor calls onChange with a text the component applied
EditorNotifies(n) ==
  /\ n \in client.owed
  /\ client.clock < n.until
  /\ client' = [handleCodeChange(client, n.text) EXCEPT !.owed = @ \ {n}]
  /\ out' = {}
  /\ ClientStep("notify")

\* 50 ms pass; a notification that is owed comes before its time is over
WaitApplied ==
  /\ \A n \in client.owed : client.clock + 50 < n.until
  /\ Wait

RoomStates ==
  { [code |-> DefaultCode(R1), language |-> JavaScript, participants |-> << >>] }

NextApply ==
  \/ WaitApplied
  \/ \E data \in RoomStates : Applies("room-state", data)
  \/ \E data \in RemoteTexts : Applies("code-update", data)
  \/ \E n \in client.owed : EditorNotifies(n)
  \/ DebounceFires
  \/ \E d \in client.resets : ResetFires(d)

SpecApply == Init /\ [][NextApply]_vars

\* ------------------------------------------- two browsers editing one room
\* What the user of each socket types.
TextOf(s) == IF s = "s1" THEN CodeX ELSE CodeY

PeerStep(op, s) ==
  /\ last' = Step(op, s, 0)
  /\ out' = {}
  /\ UNCHANGED <<now, rooms, userSockets, sockets, socketRooms, runs, fs, client>>

\* The component mounts on a connected socket and sends join-room, which the
\* server handles; the room-state it answers with is then in flight.
PeerJoins(s) ==
  /\ ~net.joined[s]
  /\ OnJoinRoom(s, Payload(R1, NameOf(s), Undefined, Undefined))
  /\ net' = Route([net EXCEPT !.joined[s] = TRUE], out')

\* socket.on('room-state') / socket.on('code-update') in the browser of s
PeerReceives(s) ==
  /\ net.toClient[s] # << >>
  /\ LET m == Head(net.toClient[s])
         c == net.peers[s]
     IN  net' = [net EXCEPT
                   !.toClient[s] = Tail(@),
                   !.isLoading[s] = IF m.ev = "room-state" THEN FALSE ELSE @,
                   !.peers[s] = IF m.ev = "room-state"
                                THEN handleRoomState(c, m.payload)
                                ELSE handleCodeUpdate(c, m.payload)]
  /\ PeerStep(Head(net.toClient[s]).ev, s)

\* the user of s edits the text in the rendered editor
PeerEdits(s) ==
  /\ ~net.isLoading[s]
  /\ net.edits[s] < MaxEdits
  /\ net' = [net EXCEPT
               !.edits[s] = @ + 1,
               !.peers[s] = [handleCodeChange(@, TextOf(s)) EXCEPT
                               !.typed = [at |-> net.peers[s].clock,
                                           value |-> TextOf(s)]]]
  /\ PeerStep("edit", s)

\* the timer set by handleCodeChange fires in the browser of s: the
\* code-change it emits is in flight to the server
PeerDebounce(s) ==
  /\ LET c == net.peers[s]
         sent == emitCodeChange(c, c.timeoutRef.code, c.timeoutRef.language)
     IN  /\ c.timeoutRef.pending /\ c.timeoutRef.due <= c.clock
         /\ net' = [net EXCEPT
                      !.peers[s].timeoutRef.pending = FALSE,
                      !.toServer[s] =
                         @ \o [i \in 1..Cardinality(sent) |->
                                 LET m == CHOOSE x \in sent : TRUE
                                 IN  Payload(m.payload.roomId, Undefined,
                                             m.payload.code, m.payload.language)]]
  /\ PeerStep("debounce", s)

\* a timer set by handleRoomState or handleCodeUpdate fires
PeerReset(s) ==
  /\ \E d \in net.peers[s].resets :
       /\ d <= net.peers[s].clock
       /\ net' = [net EXCEPT !.peers[s].isReceivingUpdate = FALSE,
                             !.peers[s].resets = @ \ {d}]
  /\ PeerStep("reset", s)

\* 100 ms pass in both browsers
PeerWait ==
  /\ \A s \in Sockets : /\ net.peers[s].clock + 100 <= MaxWaits * 50
                        /\ ~TimerDue(net.peers[s])
  /\ net' = [net EXCEPT !.peers = [s \in Sockets |-> [@[s] EXCEPT !.clock = @ + 100]]]
  /\ PeerStep("wait", "")

\* the server handles the oldest code-change of s; the code-update it
\* emits is in flight to its recipients
ServerReceives(s) ==
  /\ net.toServer[s] # << >>
  /\ OnCodeChange(s, Head(net.toServer[s]))
  /\ net' = Route([net EXCEPT !.toServer[s] = Tail(@)], out')

NextSync ==
  \/ \E s \in Sockets : Connect(s)
  \/ \E s \in Sockets : PeerJoins(s)
  \/ \E s \in Sockets : PeerReceives(s)
  \/ \E s \in Sockets : PeerEdits(s)
  \/ \E s \in Sockets : PeerDebounce(s)
  \/ \E s \in Sockets : PeerReset(s)
  \/ PeerWait
  \/ \E s \in Sockets : ServerReceives(s)

SpecSync == Init /\ [][NextSync]_vars

\* -------------------------------------------------------------------- sweep
\* A day goes by with no callback (at most MaxDays of them, whatever the
\* ticks in between).
Day ==
  /\ now + maxAge <= MaxDays * maxAge + MaxTicks * EXECUTION_TIMEOUT_MS
  /\ now' = now + maxAge
  /\ last' = Step("day", "", 0)
  /\ out' = {}
  /\ UNCHANGED <<rooms, userSockets, sockets, socketRooms, runs, fs, client, net>>

\* the room the loop deletes
Inactive(room, t) ==
  DOMAIN room.participants = {} /\ t - room.lastActivity > maxAge

\* a sweep whose loop stops after its first deletion
cleanupInactiveRooms_FirstOnly(rs, t) ==
  LET old == { r \in DOMAIN rs : Inactive(rs[r], t) }
  IN  IF old = {} THEN rs
      ELSE [r \in DOMAIN rs \ {CHOOSE r \in old : TRUE} |-> rs[r]]

\* a sweep that forgets the participants test
cleanupInactiveRooms_ByAgeOnly(rs, t) ==
  [r \in { x \in DOMAIN rs : ~(t - rs[x].lastActivity > maxAge) } |-> rs[r]]

\* cleanupInactiveRooms: the registry after the loop over rooms.entries()
\* run at time t (deleting the current entry of a Map while iterating it
\* skips no entry)
cleanupInactiveRooms(rs, t) ==
  [r \in { x \in DOMAIN rs : ~Inactive(rs[x], t) } |-> rs[r]]

\* the setInterval callback
Sweep ==
  /\ rooms' = cleanupInactiveRooms(rooms, now)
  /\ last' = Step("sweep", "", 0)
  /\ out' = {}
  /\ UNCHANGED <<now, userSockets, sockets, socketRooms, runs, fs, client, net>>

\* Rooms age and are swept: one connection joins with every kind of
\* username (a join that throws leaves an empty room behind), another joins
\* plainly, rooms are edited from outside, days go by.
NextSweep ==
  \/ Day
  \/ Sweep
  \/ \E s \in Sockets : Connect(s)
  \/ \E r \in RoomIds : \E u \in {Ann, NotAString} :
       JoinRoom("s1", Payload(r, u, Undefined, Undefined))
  \/ JoinRoom("s2", Payload(R1, Bob, Undefined, Undefined))
  \/ CodeChange("s2", Payload(R1, Undefined, CodeX, Undefined))
  \/ \E s \in Sockets : Disconnect(s)

SpecSweep == Init /\ [][NextSweep]_vars

\* ------------------------------------------------------------------- claims
RoomsOf(s) == { r \in DOMAIN rooms : s \in DOMAIN rooms[r].participants }
Events(msgs, ev) == { m \in msgs : m.ev = ev }
Missing(x) == x \in {Undefined, Empty}

AllJoinPayloads == PlainJoinPayloads("s1") \cup PlainJoinPayloads("s2")
                   \cup OddJoinPayloads \cup InvalidJoinPayloads
AllRunPayloads == InvalidRunPayloads \cup RunPayloads(SupportedLanguages \cup {Ruby})

\* C1: every connection is a participant of at most one room.
C1_AtMostOneRoom == \A s \in Sockets : Cardinality(RoomsOf(s)) <= 1

\* C2: a disconnect that removes the last participant of a room deletes the
\* room in the same handler; a room that keeps participants stays.
C2_EmptyRoomDeletedOnDisconnect ==
  [][ \A s \in Sockets :
        (last'.op = "disconnect" /\ last'.socket = s) =>
          \A r \in RoomsOf(s) :
            IF DOMAIN rooms[r].participants = {s}
            THEN r \notin DOMAIN rooms'
            ELSE /\ r \in DOMAIN rooms'
                 /\ DOMAIN rooms'[r].participants = DOMAIN rooms[r].participants \ {s}
    ]_vars

C2_Witness ==
  /\ last.op = "disconnect"
  /\ rooms = << >>
  /\ \E m \in Events(out, "user-left") : DOMAIN m.payload.participants = {}

\* C3: a code-change by A for a live room R delivers a code-update with the
\* resulting buffer to every participant of R other than A, and none to A.
C3_CodeUpdateToOtherParticipants ==
  [][ \A s \in Sockets : \A data \in CodeChangePayloads :
        (/\ last'.op = "code-change" /\ last'.socket = s
         /\ data.obj /\ data.roomId \in DOMAIN rooms
         /\ CodeChange(s, data)) =>
          /\ \E m \in Events(out', "code-update") :
               /\ m.payload.code = rooms'[data.roomId].code
               /\ DOMAIN rooms'[data.roomId].participants \ {s} \subseteq m.to
          /\ \A m \in Events(out', "code-update") : s \notin m.to
    ]_vars

C5_AlwaysOneRunResult ==
  [][ \A id \in DOMAIN runs :
        id \notin DOMAIN runs' =>
          /\ Cardinality(out') = 1
          /\ \A m \in out' : m.ev = "run-result"
    ]_vars

\* C6: when a request ends, on any exit path, its workspace is gone (unless
\* the removal itself was refused by the file system).
C6_WorkspaceRemoved ==
  [][ \A id \in DOMAIN runs :
        (/\ id \notin DOMAIN runs'
         /\ ~runs[id].rmFailed
         /\ ~Cleanup(id, FALSE) /\ ~Rm(id, FALSE)) =>
          runs[id].tempDir \notin DOMAIN fs'
    ]_vars

\* every candidate binary of the adapter failed to spawn with ENOENT
AllCandidatesMissing(r) ==
  \/ r.pc = "cleanup" /\ r.phase = "py" /\ r.res.spawnError = ENOENT
  \/ r.pc = "rm" /\ r.phase \in {"javac", "clang++"} /\ r.c.spawnError = ENOENT

\* C7: when no interpreter or compiler can be spawned, the run-result has
\* exitCode = null and a stderr text that says so.
C7_MissingToolchainExplained ==
  [][ \A id \in DOMAIN runs :
        (/\ id \notin DOMAIN runs'
         /\ AllCandidatesMissing(runs[id])
         /\ ~Rm(id, FALSE)) =>
          \A m \in out' :
            /\ m.ev = "run-result"
            /\ m.payload.exitCode = Null
            /\ m.payload.stderr # <<>>
    ]_vars

\* the sender, and only the sender, got one error; nothing else changed
OnlyErrorToSender(s) ==
  /\ Cardinality(out') = 1
  /\ \A m \in out' : m.ev = "error" /\ m.to = {s}
  /\ UNCHANGED <<rooms, socketRooms, runs, fs>>

\* C8: a payload with a missing or empty required field gets a sender-only
\* error and changes nothing.
C8_MissingFieldRejected ==
  [][ \A s \in Sockets :
        /\ \A data \in AllJoinPayloads :
             (/\ last'.op = "join-room" /\ last'.socket = s /\ data.obj
              /\ (Missing(data.roomId) \/ Missing(data.username))
              /\ JoinRoom(s, data))
             => OnlyErrorToSender(s)
        /\ \A data \in CodeChangePayloads :
             (/\ last'.op = "code-change" /\ last'.socket = s /\ data.obj
              /\ Missing(data.roomId)
              /\ CodeChange(s, data))
             => OnlyErrorToSender(s)
        /\ \A data \in LanguageChangePayloads :
             (/\ last'.op = "language-change" /\ last'.socket = s /\ data.obj
              /\ (Missing(data.roomId) \/ Missing(data.language))
              /\ LanguageChange(s, data))
             => OnlyErrorToSender(s)
        /\ \A data \in AllRunPayloads :
             (/\ last'.op = "run-code" /\ last'.socket = s /\ data.obj
              /\ (Missing(data.roomId) \/ Missing(data.code) \/ Missing(data.language))
              /\ RunCode(s, data))
             => OnlyErrorToSender(s)
    ]_vars

\* C9: code-change, language-change and run-code for a room id with no live
\* room give a sender-only error: no room is created, nothing is broadcast,
\* no request is started and the registry is unchanged.
C9_RoomNotFound ==
  [][ \A s \in Sockets :
        /\ \A data \in CodeChangePayloads :
             (/\ last'.op = "code-change" /\ last'.socket = s
              /\ data.obj /\ data.roomId \notin DOMAIN rooms
              /\ CodeChange(s, data))
             => OnlyErrorToSender(s)
        /\ \A data \in LanguageChangePayloads :
             (/\ last'.op = "language-change" /\ last'.socket = s
              /\ data.obj /\ data.roomId \notin DOMAIN rooms
              /\ LanguageChange(s, data))
             => OnlyErrorToSender(s)
        /\ \A data \in AllRunPayloads :
             (/\ last'.op = "run-code" /\ last'.socket = s
              /\ data.obj /\ data.roomId \notin DOMAIN rooms
              /\ RunCode(s, data))
             => OnlyErrorToSender(s)
    ]_vars

C9_Witness ==
  /\ last.op \in {"code-change", "language-change", "run-code"}
  /\ out = {ErrorMsg(last.socket, "Room not found")}
  /\ R2 \in DOMAIN rooms
  /\ R1 \notin DOMAIN rooms
  /\ now > 0

\* C10: a valid join-room for a room id not in the registry creates the
\* room with the default buffer and language 'javascript', and the joiner's
\* room-state is the room's buffer, language and participant list, the
\* joiner in it.
C10_JoinCreatesDefaultRoom ==
  [][ \A s \in Sockets : \A data \in AllJoinPayloads :
        (/\ last'.op = "join-room" /\ last'.socket = s
         /\ data.obj /\ Truthy(data.roomId)
         /\ data.username.t = "string" /\ Truthy(data.username)
         /\ data.roomId \notin DOMAIN rooms
         /\ JoinRoom(s, data)) =>
          /\ data.roomId \in DOMAIN rooms'
          /\ rooms'[data.roomId].code = Str(<<"// Welcome to CodeSync">> \o data.roomId.v)
          /\ rooms'[data.roomId].language = JavaScript
          /\ \E m \in Events(out', "room-state") :
               /\ m.to = {s}
               /\ m.payload.code = rooms'[data.roomId].code
               /\ m.payload.language = rooms'[data.roomId].language
               /\ m.payload.participants = rooms'[data.roomId].participants
               /\ s \in DOMAIN m.payload.participants
    ]_vars

C10_Witness ==
  /\ last.op = "join-room"
  /\ \E r \in DOMAIN rooms :
       /\ DOMAIN rooms[r].participants = {last.socket}
       /\ rooms[r].createdAt = now /\ now > 0
       /\ \E m \in Events(out, "room-state") : m.payload.code = DefaultCode(r)

\* C11: after a sweep run at time now, no room of the registry has zero
\* participants and a lastActivity more than 24 hours before now.
C11_NoStaleEmptyRoomAfterSweep ==
  last.op = "sweep" =>
    \A r \in DOMAIN rooms :
      ~(Cardinality(DOMAIN rooms[r].participants) = 0
        /\ now - rooms[r].lastActivity > 24 * 60 * 60 * 1000)

\* only s1 ever connected, it is in a broadcast group and still connected,
\* yet no room is left: the sweep deleted the empty room of that group
C11_Witness ==
  /\ last.op = "sweep"
  /\ sockets["s2"] = "idle" /\ sockets["s1"] = "connected"
  /\ socketRooms["s1"] # {}
  /\ rooms = << >>
  /\ now = 2 * maxAge

\* C12: a sweep deletes no room that has a participant and no empty room
\* whose lastActivity is at most 24 hours old, and leaves every room it
\* keeps as it was.
C12_SweepKeepsLiveAndRecentRooms ==
  [][ last'.op = "sweep" =>
        /\ \A r \in DOMAIN rooms :
             (\/ DOMAIN rooms[r].participants # {}
              \/ now - rooms[r].lastActivity <= 24 * 60 * 60 * 1000)
             => r \in DOMAIN rooms'
        /\ \A r \in DOMAIN rooms' : r \in DOMAIN rooms /\ rooms'[r] = rooms[r]
    ]_vars

\* a sweep kept a room with a participant idle for two days and an empty
\* room idle for exactly 24 hours
C12_Witness ==
  /\ last.op = "sweep"
  /\ \E r \in DOMAIN rooms :
       /\ DOMAIN rooms[r].participants # {}
       /\ now - rooms[r].lastActivity = 2 * maxAge
  /\ \E r \in DOMAIN rooms :
       /\ DOMAIN rooms[r].participants = {}
       /\ now - rooms[r].lastActivity = maxAge

CompilePhases == {"javac", "g++", "clang++"}
RunPhases == {"java", "main"}
AllCloseArgs == {Zero, One, ErrnoENOENT, Null} \X {Null, SIGKILL}

\* the request's compile step (its last candidate compiler) closes with args
CompileCloses(id, args) ==
  /\ last'.op = "close" /\ last'.req = id
  /\ runs[id].pc = "child" /\ runs[id].phase \in CompilePhases
  /\ ~(runs[id].phase = "g++" /\ runs[id].c.spawnError = ENOENT)
  /\ ChildClose(id, args)

\* the run step is spawned only by the close of a compile step with code 0
RunOnlyAfterCleanCompile(id) ==
  (id \in DOMAIN runs' /\ runs'[id].phase \in RunPhases
   /\ runs[id].phase \notin RunPhases) =>
    /\ runs[id].phase \in CompilePhases
    /\ runs[id].c.spawnError = Undefined
    /\ ChildClose(id, <<Zero, Null>>)

\* C13 (as claimed): a compile step that does not exit with code 0 makes
\* the adapter return that step's exit code and stderr, without spawning
\* the run step; the run step is spawned only after a compile exit 0.
C13_CompileFailureReturnsCompileResult ==
  [][ \A id \in DOMAIN runs :
        /\ \A args \in AllCloseArgs :
             (args[1] # Zero /\ CompileCloses(id, args)) =>
               /\ id \in DOMAIN runs' /\ runs'[id].pc = "rm"
               /\ runs'[id].phase = runs[id].phase
               /\ runs'[id].res.exitCode = args[1]
               /\ runs'[id].res.stderr = toStringUtf8(runs[id].c.stderr)
        /\ (runs[id].pc = "rm" /\ id \notin DOMAIN runs') =>
             \E m \in Events(out', "run-result") :
               /\ m.payload.exitCode = runs[id].res.exitCode
               /\ m.payload.stderr = runs[id].res.stderr
        /\ RunOnlyAfterCleanCompile(id)
    ]_vars

\* C13 (amended): after a compile step that does not exit with code 0 the
\* run step is never spawned and the workspace is removed; if the removal
\* succeeds the adapter returns the compile step's exit code and stderr
\* when the compiler ran, and a fixed result (exitCode null, a stderr
\* naming the missing compiler) when no compiler could be spawned; if the
\* removal fails the handler sends an error and no result.
C13_CompileFailureSkipsRun ==
  [][ \A id \in DOMAIN runs :
        /\ \A args \in AllCloseArgs :
             (args[1] # Zero /\ CompileCloses(id, args)) =>
               /\ id \in DOMAIN runs' /\ runs'[id].pc = "rm"
               /\ runs'[id].phase = runs[id].phase
               /\ out' = {}
               /\ IF runs[id].c.spawnError = ENOENT
                  THEN /\ runs'[id].res.exitCode = Null
                       /\ runs'[id].res.stderr =
                            IF runs[id].phase = "javac"
                            THEN <<Literal("javac not found. Install JDK.")>>
                            ELSE <<Literal("C++ compiler not found (g++/clang++).")>>
                  ELSE /\ runs'[id].res.exitCode = args[1]
                       /\ runs'[id].res.stderr = toStringUtf8(runs[id].c.stderr)
        /\ (runs[id].pc = "rm" /\ id \notin DOMAIN runs') =>
             /\ Cardinality(out') = 1
             /\ IF Rm(id, TRUE)
                THEN /\ runs[id].tempDir \notin DOMAIN fs'
                     /\ \A m \in out' :
                          /\ m.ev = "run-result"
                          /\ m.payload.exitCode = runs[id].res.exitCode
                          /\ m.payload.stderr = runs[id].res.stderr
                ELSE \A m \in out' : m.ev = "error"
        /\ RunOnlyAfterCleanCompile(id)
    ]_vars

\* javac wrote a diagnostic and exited with 1: that is the run-result
C13_Witness ==
  /\ last.op = "rm"
  /\ \E m \in Events(out, "run-result") :
       /\ m.payload.language = Java
       /\ m.payload.exitCode = One
       /\ m.payload.stderr = <<Chars(1, 40000)>>
  /\ fs = << >>

\* what one stream's buffer must be after a chunk of n bytes, the k-th of
\* the request, arrived on it: the chunk whole if it fits, else its first
\* bytes up to the cap of 65536
CappedAppend(buf, k, n) ==
  IF Length(buf) + n <= 65536 THEN Append(buf, Bytes(k, n))
  ELSE IF Length(buf) < 65536 THEN Append(buf, Bytes(k, 65536 - Length(buf)))
  ELSE buf

\* the flags after a chunk of n bytes arrived on a stream holding buf
OverflowHandled(buf, n, c, c1) ==
  IF Length(buf) + n > 65536
  THEN c1.outputTruncated /\ c1.killed
  ELSE c1.outputTruncated = c.outputTruncated /\ c1.killed = c.killed

\* C14: each of stdout and stderr holds at most 65536 bytes at any time; a
\* chunk that would exceed the cap is cut to the remaining budget, sets
\* outputTruncated and gets the child killed at once; a full stream takes
\* nothing more; the other stream is not touched.
C14_OutputCappedPerStream ==
  [][ \A id \in DOMAIN runs \cap DOMAIN runs' :
        LET c == runs[id].c
            c1 == runs'[id].c
            k == runs'[id].chunks
        IN  /\ Length(c1.stdout) <= 65536
            /\ Length(c1.stderr) <= 65536
            /\ \A n \in ChunkSizes :
                 (last'.op = "stdout-data" /\ last'.req = id /\ ChildStdout(id, n)) =>
                   /\ c1.stdout = CappedAppend(c.stdout, k, n)
                   /\ c1.stderr = c.stderr
                   /\ OverflowHandled(c.stdout, n, c, c1)
                   /\ c1.timer = c.timer /\ c1.timedOut = c.timedOut
            /\ \A n \in ChunkSizes :
                 (last'.op = "stderr-data" /\ last'.req = id /\ ChildStderr(id, n)) =>
                   /\ c1.stderr = CappedAppend(c.stderr, k, n)
                   /\ c1.stdout = c.stdout
                   /\ OverflowHandled(c.stderr, n, c, c1)
                   /\ c1.timer = c.timer /\ c1.timedOut = c.timedOut
    ]_vars

\* three chunks arrived on stdout: the second was cut to fit and got the
\* child killed before the timeout, the third added nothing
C14_Witness ==
  /\ last.op = "stdout-data"
  /\ \E id \in DOMAIN runs :
       /\ runs[id].chunks = 3
       /\ runs[id].c.stdout = <<Bytes(1, 40000), Bytes(2, 25536)>>
       /\ runs[id].c.stderr = << >>
       /\ runs[id].c.outputTruncated /\ runs[id].c.killed
       /\ runs[id].c.timer /\ ~runs[id].c.timedOut

\* the result of the limitedSpawn call that closes in this step is the one
\* stored for the request (an adapter replaces it only after a compiler
\* failed to spawn)
ResultKept(id) ==
  /\ id \in DOMAIN runs'
  /\ \/ runs'[id].pc = "cleanup"
     \/ runs[id].c.spawnError = Undefined /\ runs'[id].pc \in {"rm", "child"}

\* C15: the watchdog runs no earlier than 5000 ms after the spawn and only
\* while the child has not closed; it kills the child and the result then
\* has timedOut = true with the output captured so far; timedOut is set by
\* nothing else.
C15_WatchdogKillsAndFlags ==
  [][ \A id \in DOMAIN runs :
        LET c == runs[id].c
        IN  /\ (last'.op = "timeout" /\ last'.req = id) =>
                 /\ runs[id].pc = "child" /\ c.child # "closed"
                 /\ now >= c.spawnedAt + 5000
                 /\ runs'[id].c.timedOut
                 /\ c.child = "running" => runs'[id].c.killed
                 /\ runs'[id].c.stdout = c.stdout /\ runs'[id].c.stderr = c.stderr
            /\ (id \in DOMAIN runs' /\ runs'[id].c.timedOut /\ ~c.timedOut) =>
                 last'.op = "timeout" /\ last'.req = id
            /\ (last'.op = "close" /\ last'.req = id /\ ResultKept(id)) =>
                 /\ runs'[id].res.timedOut = c.timedOut
                 /\ runs'[id].res.stdout = toStringUtf8(c.stdout)
                 /\ runs'[id].res.stderr = toStringUtf8(c.stderr)
    ]_vars

\* a child wrote one chunk, was killed by the watchdog and closed
C15_Witness ==
  /\ last.op = "close"
  /\ \E id \in DOMAIN runs :
       /\ runs[id].pc = "cleanup"
       /\ runs[id].res.timedOut /\ ~runs[id].res.outputTruncated
       /\ runs[id].res.signal = SIGKILL
       /\ runs[id].res.stdout = <<Chars(1, 40000)>>
       /\ now >= runs[id].c.spawnedAt + EXECUTION_TIMEOUT_MS

\* the limitedSpawn calls that are given a cleanup function
CleanupPhases == {"node", "python", "py", "java", "main"}

\* what the adapter does with the result res of such a call: runPython
\* tries py after an ENOENT of python, every other call ends the request
\* with res (runJava appends a line to the stderr of an ENOENT)
GoesOnWith(id, r) ==
  IF r.phase = "python" /\ r.res.spawnError = ENOENT
  THEN /\ id \in DOMAIN runs' /\ runs'[id].phase = "py" /\ runs'[id].pc = "child"
       /\ out' = {}
  ELSE /\ id \notin DOMAIN runs'
       /\ Cardinality(out') = 1
       /\ \A m \in out' :
            /\ m.ev = "run-result"
            /\ m.payload.exitCode = r.res.exitCode
            /\ m.payload.stdout = r.res.stdout
            /\ m.payload.timedOut = r.res.timedOut
            /\ m.payload.outputTruncated = r.res.outputTruncated
            /\ \/ m.payload.stderr = r.res.stderr
               \/ r.phase = "java" /\ r.res.spawnError = ENOENT

\* C16: a limitedSpawn call that was given a cleanup resolves only when the
\* cleanup has settled, on every exit path; whether the cleanup succeeded
\* or failed, the adapter goes on with the same result.
C16_CleanupBeforeResult ==
  [][ \A id \in DOMAIN runs :
        /\ (last'.op = "close" /\ last'.req = id
            /\ runs[id].phase \in CleanupPhases) =>
             /\ id \in DOMAIN runs' /\ runs'[id].pc = "cleanup"
             /\ runs'[id].phase = runs[id].phase
             /\ out' = {} /\ fs' = fs
        /\ (runs[id].pc \in {"child", "cleanup"} /\ runs[id].phase \in CleanupPhases
            /\ (id \notin DOMAIN runs' \/ runs'[id].phase # runs[id].phase)) =>
             last'.op = "cleanup" /\ last'.req = id /\ runs[id].pc = "cleanup"
        /\ (last'.op = "cleanup" /\ last'.req = id) =>
             /\ runs[id].phase \in CleanupPhases
             /\ GoesOnWith(id, runs[id])
             /\ \/ Cleanup(id, TRUE) /\ runs[id].tempDir \notin DOMAIN fs'
                \/ Cleanup(id, FALSE) /\ fs' = fs
    ]_vars

\* a child was killed for its output, the removal of the workspace failed,
\* and the result was delivered all the same
C16_Witness ==
  /\ last.op = "cleanup"
  /\ runs = << >> /\ fs # << >>
  /\ \E m \in Events(out, "run-result") :
       m.payload.outputTruncated /\ ~m.payload.timedOut

\* C17: a run-code that passes validation on a live room and names a
\* language other than javascript, typescript, python, java, cpp gives at
\* once one run-result with exitCode null, empty stdout, a stderr saying
\* the language is not supported and both flags false; no request is
\* started and no directory is made.
C17_UnsupportedLanguageSoftResult ==
  [][ \A s \in Sockets : \A data \in AllRunPayloads :
        (/\ last'.op = "run-code" /\ last'.socket = s
         /\ data.obj /\ Truthy(data.roomId) /\ data.roomId \in DOMAIN rooms
         /\ data.code.t = "string" /\ Truthy(data.language)
         /\ data.language \notin {Str(<<"javascript">>), Str(<<"typescript">>),
                                  Str(<<"python">>), Str(<<"java">>), Str(<<"cpp">>)}
         /\ RunCode(s, data)) =>
          /\ Cardinality(out') = 1
          /\ \A m \in out' :
               /\ m.ev = "run-result"
               /\ m.payload.language = data.language
               /\ m.payload.exitCode = Null
               /\ m.payload.stdout = << >>
               /\ m.payload.stderr =
                    <<Literal("Execution for language \""), Literal(data.language.v[1]),
                      Literal("\" is not supported yet.")>>
               /\ ~m.payload.timedOut /\ ~m.payload.outputTruncated
          /\ UNCHANGED <<runs, fs, rooms>>
    ]_vars

\* ruby was asked for some time after the start: the room got the soft
\* result, no request is in progress and no directory exists
C17_Witness ==
  /\ last.op = "run-code"
  /\ runs = << >> /\ fs = << >>
  /\ now > 0
  /\ \E m \in Events(out, "run-result") :
       /\ m.payload.language = Ruby
       /\ m.payload.exitCode = Null
       /\ m.to = {"s1"}

\* C18: when a participant of R disconnects it is removed from R, and every
\* remaining participant of R receives one user-left with the departed
\* participant and R's participants after the removal; a connection that
\* was in no room causes no broadcast.
C18_UserLeftToRemainingMembers ==
  [][ \A s \in Sockets :
        (last'.op = "disconnect" /\ last'.socket = s) =>
          /\ \A r \in RoomsOf(s) :
               LET rest == MapDelete(rooms[r].participants, s)
               IN  /\ r \in DOMAIN rooms' => rooms'[r].participants = rest
                   /\ \A x \in DOMAIN rest :
                        Cardinality({ m \in Events(out', "user-left") : x \in m.to }) = 1
                   /\ \E m \in Events(out', "user-left") :
                        /\ DOMAIN rest \subseteq m.to
                        /\ m.payload.user = rooms[r].participants[s]
                        /\ m.payload.participants = rest
                        /\ s \notin DOMAIN m.payload.participants
          /\ RoomsOf(s) = {} => out' = {}
    ]_vars

\* C19: on a valid join-room for R the room-state goes to the joiner only,
\* and a user-joined with the new participant and R's full participant
\* list goes to every other participant of R and not to the joiner.
C19_JoinSnapshotAndAnnouncement ==
  [][ \A s \in Sockets : \A data \in AllJoinPayloads :
        (/\ last'.op = "join-room" /\ last'.socket = s
         /\ data.obj /\ Truthy(data.roomId)
         /\ data.username.t = "string" /\ Truthy(data.username)
         /\ JoinRoom(s, data)) =>
          LET R == rooms'[data.roomId]
          IN  /\ \A m \in Events(out', "room-state") : m.to = {s}
              /\ Cardinality(Events(out', "room-state")) = 1
              /\ Cardinality(Events(out', "user-joined")) = 1
              /\ \A m \in Events(out', "user-joined") :
                   /\ DOMAIN R.participants \ {s} \subseteq m.to
                   /\ s \notin m.to
                   /\ m.payload.user = R.participants[s]
                   /\ m.payload.participants = R.participants
                   /\ s \in DOMAIN m.payload.participants
    ]_vars

\* C20: last writer wins.  A new room holds the default seed; a processed
\* code-change with a code field makes that code the buffer, whatever the
\* buffer was; a code-change without one and every other event leave the
\* buffer of a room that stays in the registry as it is.
C20_LastWriterWins ==
  [][ \A r \in RoomIds :
        /\ (r \in DOMAIN rooms' \ DOMAIN rooms) =>
             rooms'[r].code = Str(<<"// Welcome to CodeSync">> \o r.v)
        /\ (r \in DOMAIN rooms) =>
             \A s \in Sockets : \A data \in EditPayloads(s) :
               (/\ last'.op = "code-change" /\ last'.socket = s /\ data.roomId = r
                /\ CodeChange(s, data)) =>
                 /\ r \in DOMAIN rooms'
                 /\ rooms'[r].code =
                      IF data.code = Undefined THEN rooms[r].code ELSE data.code
        /\ (r \in DOMAIN rooms /\ r \in DOMAIN rooms'
            /\ ~(last'.op = "code-change"
                 /\ \E data \in EditPayloads(last'.socket) :
                      data.roomId = r /\ CodeChange(last'.socket, data))) =>
             rooms'[r].code = rooms[r].code
    ]_vars

\* s1's edit set the language to python and the text to x; s2's edit,
\* processed after it, replaced the text: nothing of x is left
C20_Witness ==
  /\ last.op = "code-change" /\ last.socket = "s2"
  /\ R1 \in DOMAIN rooms
  /\ rooms[R1].language = Python
  /\ rooms[R1].code = CodeY
  /\ {"s1", "s2"} \subseteq DOMAIN rooms[R1].participants

\* C21: every participant stored in a room has a username that is a
\* trimmed, non-empty string.
C21_UsernamesTrimmedNonEmpty ==
  \A r \in DOMAIN rooms : \A s \in DOMAIN rooms[r].participants :
    LET u == rooms[r].participants[s].username
    IN  /\ u.t = "string"
        /\ u.v # << >>
        /\ ~IsSpace(u.v[1]) /\ ~IsSpace(u.v[Len(u.v)])

\* one error event with the given text left the handler, addressed to the
\* given connections and to nobody else
OneError(to, text) ==
  /\ Cardinality(out') = 1
  /\ \A m \in out' : m.ev = "error" /\ m.to = to /\ m.payload.message = text

\* nobody was disconnected, and no connection other than s lost its group,
\* its room or its entry in a room; the rooms that existed are as they were
OthersUntouched(s) ==
  /\ sockets' = sockets /\ userSockets' = userSockets
  /\ \A x \in Sockets \ {s} : socketRooms'[x] = socketRooms[x]
  /\ \A r \in DOMAIN rooms : r \in DOMAIN rooms' /\ rooms'[r] = rooms[r]

\* C22: an exception raised in a handler of join-room, code-change,
\* language-change or run-code is caught in that handler: exactly one
\* generic error event is emitted, on the offending connection only; no
\* connection is disconnected, no other connection loses its room, and the
\* connection table is as before, so that later events are processed.
C22_HandlerFaultContained ==
  [][ /\ \A s \in Sockets :
           /\ \A data \in FaultyJoinPayloads :
                (last'.op = "join-room" /\ last'.socket = s /\ JoinRoom(s, data)) =>
                  OneError({s}, "Failed to join room") /\ OthersUntouched(s)
           /\ (last'.op = "code-change" /\ last'.socket = s
               /\ CodeChange(s, NoPayload)) =>
                OneError({s}, "Failed to update code") /\ OthersUntouched(s)
           /\ (last'.op = "language-change" /\ last'.socket = s
               /\ LanguageChange(s, NoPayload)) =>
                OneError({s}, "Failed to update language") /\ OthersUntouched(s)
      /\ \A id \in DOMAIN runs :
           (/\ last'.req = id
            /\ Mkdtemp(id, FALSE) \/ WriteFile(id, FALSE) \/ Rm(id, FALSE)) =>
             /\ OneError({ x \in {runs[id].socket} : sockets[x] = "connected" },
                         "Failed to run code")
             /\ OthersUntouched(runs[id].socket)
             /\ id \notin DOMAIN runs'
    ]_vars

\* s1 sent a number as username while s2 was in R1: s1 alone got the error,
\* s2 is still connected, listed in R1 and in R1's broadcast group
C22_Witness ==
  /\ last.op = "join-room" /\ last.socket = "s1"
  /\ out = {ErrorMsg("s1", "Failed to join room")}
  /\ R2 \in DOMAIN rooms
  /\ sockets["s2"] = "connected"
  /\ R1 \in DOMAIN rooms /\ "s2" \in DOMAIN rooms[R1].participants
  /\ R1 \in socketRooms["s2"]

\* a child process of some request is running
ChildRunning == \E id \in DOMAIN runs :
                  runs[id].pc = "child" /\ runs[id].c.child = "running"

JoinR1(s) == Payload(R1, NameOf(s), Undefined, Undefined)
EditR1 == Payload(R1, Undefined, CodeX, Undefined)
PythonR1 == Payload(R1, Undefined, Undefined, Python)
RunR1 == Payload(R1, Undefined, CodeX, JavaScript)

\* C23: a run-code that starts a program returns to the event loop with the
\* request pending and nothing broadcast; while a child process is running
\* the handlers of join-room, code-change, language-change, run-code and
\* disconnect can run for every connection, the requester included, and
\* when they run they take their full effect and leave the pending requests
\* as they are.
C23_LoopNotBlocked ==
  [][ /\ \A s \in Sockets :
           (/\ last'.op = "run-code" /\ last'.socket = s
            /\ R1 \in DOMAIN rooms /\ RunCode(s, RunR1)) =>
             /\ out' = {}
             /\ \E id \in DOMAIN runs' \ DOMAIN runs : runs'[id].pc = "mkdtemp"
             /\ \A id \in DOMAIN runs : id \in DOMAIN runs' /\ runs'[id] = runs[id]
      /\ ChildRunning =>
           \A s \in Sockets :
             sockets[s] = "connected" =>
               /\ ENABLED JoinRoom(s, JoinR1(s))
               /\ ENABLED CodeChange(s, EditR1)
               /\ ENABLED LanguageChange(s, PythonR1)
               /\ ENABLED Disconnect(s)
               /\ Cardinality(DOMAIN runs) < MaxInFlight => ENABLED RunCode(s, RunR1)
      /\ ChildRunning =>
           \A s \in Sockets :
             /\ (last'.op = "join-room" /\ last'.socket = s) =>
                  /\ R1 \in DOMAIN rooms' /\ s \in DOMAIN rooms'[R1].participants
                  /\ socketRooms'[s] = {R1}
                  /\ \E m \in Events(out', "room-state") : m.to = {s}
                  /\ runs' = runs
             /\ (last'.op = "code-change" /\ last'.socket = s /\ R1 \in DOMAIN rooms) =>
                  /\ rooms'[R1].code = CodeX
                  /\ \E m \in Events(out', "code-update") :
                       m.to = Group(socketRooms, R1) \ {s}
                  /\ runs' = runs
             /\ (last'.op = "language-change" /\ last'.socket = s
                 /\ R1 \in DOMAIN rooms) =>
                  /\ rooms'[R1].language = Python
                  /\ \E m \in Events(out', "language-update") :
                       m.to = Group(socketRooms, R1) \ {s}
                  /\ runs' = runs
             /\ (last'.op = "disconnect" /\ last'.socket = s) =>
                  /\ sockets'[s] = "disconnected"
                  /\ s \notin DOMAIN userSockets'
                  /\ \A r \in DOMAIN rooms' : s \notin DOMAIN rooms'[r].participants
                  /\ runs' = runs
    ]_vars

\* the child of s1's first request was spawned at time 0 and is still
\* running at 5000; since the spawn s2 has joined, edited the buffer and
\* changed the language, s1 has sent a second request, which is pending,
\* and s1, the requester, has just disconnected
C23_Witness ==
  /\ last.op = "disconnect" /\ last.socket = "s1"
  /\ now = EXECUTION_TIMEOUT_MS
  /\ \E id \in DOMAIN runs :
       /\ runs[id].socket = "s1" /\ runs[id].startedAt = 0
       /\ runs[id].pc = "child" /\ runs[id].c.child = "running"
       /\ runs[id].c.spawnedAt = 0
  /\ \E id \in DOMAIN runs : runs[id].startedAt = EXECUTION_TIMEOUT_MS
  /\ R1 \in DOMAIN rooms
  /\ DOMAIN rooms[R1].participants = {"s2"}
  /\ rooms[R1].participants["s2"].joinedAt = EXECUTION_TIMEOUT_MS
  /\ rooms[R1].code = CodeX /\ rooms[R1].language = Python

\* the requests that have made their workspace
WithWorkspace(rs) == { id \in DOMAIN rs : rs[id].tempDir # 0 }

C25_LastActivityUpdated ==
  [][ /\ \A s \in Sockets :
           /\ \A data \in PlainJoinPayloads(s) :
                (last'.op = "join-room" /\ last'.socket = s /\ JoinRoom(s, data)) =>
                  /\ rooms'[data.roomId].lastActivity = now'
                  /\ \A r \in socketRooms[s] \ {data.roomId} :
                       r \in DOMAIN rooms' => rooms'[r].lastActivity = now'
           /\ \A data \in CodeChangePayloads :
                (/\ last'.op = "code-change" /\ last'.socket = s
                 /\ data.obj /\ data.roomId \in DOMAIN rooms
                 /\ CodeChange(s, data)) =>
                  rooms'[data.roomId].lastActivity = now'
           /\ \A data \in LanguageChangePayloads :
                (/\ last'.op = "language-change" /\ last'.socket = s
                 /\ data.obj /\ data.roomId \in DOMAIN rooms
                 /\ LanguageChange(s, data)) =>
                  rooms'[data.roomId].lastActivity = now'
           /\ (last'.op = "disconnect" /\ last'.socket = s) =>
                \A r \in RoomsOf(s) :
                  r \in DOMAIN rooms' => rooms'[r].lastActivity = now'
      /\ \A r \in DOMAIN rooms \cap DOMAIN rooms' :
           rooms'[r].lastActivity >= rooms[r].lastActivity
    ]_vars

\* C26: getOrCreateRoom is idempotent, and on a room that exists it changes
\* nothing: a join-room for such a room leaves the room's buffer, language,
\* createdAt and the entries of its other participants as they were, and
\* the joiner's room-state carries that buffer and language.
C26_GetOrCreateIdempotent ==
  [][ /\ \A r \in RoomIds :
           /\ getOrCreateRoom(getOrCreateRoom(rooms, r), r) = getOrCreateRoom(rooms, r)
           /\ r \in DOMAIN rooms => getOrCreateRoom(rooms, r) = rooms
      /\ \A s \in Sockets : \A data \in PlainJoinPayloads(s) :
           (/\ last'.op = "join-room" /\ last'.socket = s
            /\ data.roomId \in DOMAIN rooms
            /\ JoinRoom(s, data)) =>
             LET old == rooms[data.roomId]
                 new == rooms'[data.roomId]
             IN  /\ new.code = old.code /\ new.language = old.language
                 /\ new.createdAt = old.createdAt
                 /\ \A x \in DOMAIN old.participants \ {s} :
                      /\ x \in DOMAIN new.participants
                      /\ new.participants[x] = old.participants[x]
                 /\ DOMAIN new.participants = DOMAIN old.participants \cup {s}
                 /\ \A m \in Events(out', "room-state") :
                      m.payload.code = old.code /\ m.payload.language = old.language
                 /\ Events(out', "room-state") # {}
    ]_vars

\* s2 joined R1 some time after s1 had created and edited it: the room
\* still has its creation time and s1's entry, and s2's snapshot is s1's
\* text and language, not the seed
C26_Witness ==
  /\ last.op = "join-room" /\ last.socket = "s2"
  /\ now > 0
  /\ R1 \in DOMAIN rooms
  /\ rooms[R1].createdAt = 0
  /\ "s1" \in DOMAIN rooms[R1].participants
  /\ rooms[R1].participants["s1"].joinedAt = 0
  /\ \E m \in Events(out, "room-state") :
       /\ m.payload.code = CodeX /\ m.payload.language = Python
       /\ m.payload.code # DefaultCode(R1)

\* C27: runPython starts py -3 if and only if the spawn of python failed
\* with ENOENT; a python process that ran, whatever its exit code and
\* whether or not it was killed for time or output, has no spawn error, its
\* result is the request's result and no second process is started.
C27_FallbackOnlyWhenAbsent ==
  [][ \A id \in DOMAIN runs :
        /\ (id \in DOMAIN runs' /\ runs'[id].phase = "py" /\ runs[id].phase # "py") =>
             /\ last'.op = "cleanup" /\ last'.req = id
             /\ runs[id].phase = "python"
             /\ runs[id].res.spawnError = Str(<<"ENOENT">>)
        /\ (last'.op = "close" /\ last'.req = id /\ runs[id].phase = "python") =>
             /\ id \in DOMAIN runs' /\ runs'[id].phase = "python"
             /\ runs'[id].pc = "cleanup"
             /\ runs'[id].res.spawnError =
                  IF runs[id].c.child = "running" THEN Undefined ELSE Str(<<"ENOENT">>)
        /\ (last'.op = "cleanup" /\ last'.req = id /\ runs[id].phase = "python") =>
             IF runs[id].res.spawnError = Str(<<"ENOENT">>)
             THEN /\ id \in DOMAIN runs'
                  /\ runs'[id].phase = "py" /\ runs'[id].pc = "child"
                  /\ out' = {}
             ELSE /\ id \notin DOMAIN runs'
                  /\ Cardinality(out') = 1
                  /\ \A m \in out' :
                       /\ m.ev = "run-result"
                       /\ m.payload.exitCode = runs[id].res.exitCode
                       /\ m.payload.stdout = runs[id].res.stdout
                       /\ m.payload.stderr = runs[id].res.stderr
                       /\ m.payload.timedOut = runs[id].res.timedOut
                       /\ m.payload.outputTruncated = runs[id].res.outputTruncated
    ]_vars

\* python was not found: its call resolved with ENOENT and runPython has
\* started py
C27_Witness ==
  /\ last.op = "cleanup"
  /\ \E id \in DOMAIN runs :
       /\ last.req = id
       /\ runs[id].language = Python
       /\ runs[id].phase = "py" /\ runs[id].pc = "child"
       /\ runs[id].res.spawnError = ENOENT
       /\ runs[id].res.exitCode = ErrnoENOENT

\* the chunks of which a decoded stream holds something
ChunksIn(str) == { str[i].chunk : i \in 1..Len(str) }

\* the request's child has written chunks 1..n of 20000 bytes each: the two
\* decoded streams hold every one of them whole, each once, in the order
\* of writing
HoldsAllWritten(res, n) ==
  /\ ChunksIn(res.stdout) \cup ChunksIn(res.stderr) = 1..n
  /\ Len(res.stdout) + Len(res.stderr) = n
  /\ \A str \in {res.stdout, res.stderr} :
       /\ \A i \in 1..Len(str) : str[i].chars = 20000
       /\ \A i, j \in 1..Len(str) : i < j => str[i].chunk < str[j].chunk

\* C28: a child that closes on its own with code k while the timer is
\* pending, having written less than 65536 bytes on each stream, resolves
\* with exitCode k, stdout and stderr holding everything it wrote, timedOut
\* and outputTruncated false; each chunk under the cap is appended whole to
\* its own stream; for javascript that result is the run-result's content.
C28_CleanExitResult ==
  [][ \A id \in DOMAIN runs :
        LET c == runs[id].c
        IN  /\ \A n \in SmallChunks :
                 (/\ last'.op = "stdout-data" /\ last'.req = id
                  /\ Length(c.stdout) + n < 65536 /\ ChildStdout(id, n)) =>
                   /\ runs'[id].c.stdout = Append(c.stdout, Bytes(runs[id].chunks + 1, n))
                   /\ runs'[id].c.stderr = c.stderr
            /\ \A n \in SmallChunks :
                 (/\ last'.op = "stderr-data" /\ last'.req = id
                  /\ Length(c.stderr) + n < 65536 /\ ChildStderr(id, n)) =>
                   /\ runs'[id].c.stderr = Append(c.stderr, Bytes(runs[id].chunks + 1, n))
                   /\ runs'[id].c.stdout = c.stdout
            /\ \A k \in {Zero, One} :
                 (/\ last'.op = "close" /\ last'.req = id
                  /\ c.child = "running" /\ c.timer
                  /\ Length(c.stdout) < 65536 /\ Length(c.stderr) < 65536
                  /\ ChildClose(id, <<k, Null>>)) =>
                   /\ id \in DOMAIN runs'
                   /\ runs'[id].res.exitCode = k
                   /\ HoldsAllWritten(runs'[id].res, runs[id].chunks)
                   /\ ~runs'[id].res.timedOut /\ ~runs'[id].res.outputTruncated
                   /\ runs'[id].res.spawnError = Undefined
            /\ (last'.op = "cleanup" /\ last'.req = id /\ runs[id].phase = "node") =>
                 /\ id \notin DOMAIN runs'
                 /\ Cardinality(out') = 1
                 /\ \A m \in out' :
                      /\ m.ev = "run-result"
                      /\ m.payload.exitCode = runs[id].res.exitCode
                      /\ m.payload.stdout = runs[id].res.stdout
                      /\ m.payload.stderr = runs[id].res.stderr
                      /\ m.payload.timedOut = runs[id].res.timedOut
                      /\ m.payload.outputTruncated = runs[id].res.outputTruncated
    ]_vars

\* a javascript program wrote two chunks to stdout and, between them, one
\* to stderr, and exited with 0: the run-result holds all three
C28_Witness ==
  /\ last.op = "cleanup"
  /\ \E m \in Events(out, "run-result") :
       /\ m.payload.language = JavaScript
       /\ m.payload.exitCode = Zero
       /\ m.payload.stdout = <<Chars(1, 20000), Chars(3, 20000)>>
       /\ m.payload.stderr = <<Chars(2, 20000)>>
       /\ ~m.payload.timedOut /\ ~m.payload.outputTruncated

\* the connection is known nowhere: not in the connection table, in no
\* room's participants, in no broadcast group
Gone(s) ==
  /\ s \notin DOMAIN userSockets'
  /\ \A r \in DOMAIN rooms' : s \notin DOMAIN rooms'[r].participants
  /\ socketRooms'[s] = {}

\* C29: Disconnected is terminal.  Once the disconnect handler has run for
\* a connection, the connection stays disconnected, is in no room's
\* participants and not in the connection table, after that step and after
\* every later one; a run it had started still ends with its run-result
\* broadcast to the room's group, the connection not among the recipients.
C29_DisconnectedIsTerminal ==
  [][ \A s \in Sockets :
        /\ (last'.op = "disconnect" /\ last'.socket = s) =>
             sockets'[s] = "disconnected" /\ Gone(s)
        /\ sockets[s] = "disconnected" =>
             /\ sockets'[s] = "disconnected" /\ Gone(s)
             /\ last'.socket = s => last'.req \in DOMAIN runs
             /\ \A id \in DOMAIN runs :
                  (runs[id].socket = s /\ id \notin DOMAIN runs') =>
                    /\ Cardinality(out') = 1
                    /\ \A m \in out' :
                         /\ m.ev = "run-result"
                         /\ m.to = Group(socketRooms', runs[id].roomId)
                         /\ s \notin m.to
    ]_vars

\* s1 asked for a run in R1 and disconnected; the run has now completed:
\* its result went to s2, and s1 is in no room and not in the table
C29_Witness ==
  /\ last.op = "cleanup" /\ last.socket = "s1"
  /\ sockets["s1"] = "disconnected"
  /\ "s1" \notin DOMAIN userSockets
  /\ \A r \in DOMAIN rooms : "s1" \notin DOMAIN rooms[r].participants
  /\ \E m \in Events(out, "run-result") :
       m.to = {"s2"} /\ m.payload.initiatedBy = Trim(Ann)

\* C30: a series of local edits, each less than 300 ms after the previous
\* one, leads to exactly one code-change emission, 300 ms after the last
\* edit and with that edit's text.
C30_DebounceEmitsLastEdit ==
  LET c == client
  IN  /\ c.emitted.count <= 1
      /\ c.emitted.count = 1 =>
           /\ c.emitted.at = c.typed.at + 300
           /\ c.emitted.code = c.typed.value
      /\ (c.typed # NoEdit /\ c.clock > c.typed.at + 300) => c.emitted.count = 1

\* C31: convergence.  When nothing is in flight and no browser has an
\* emission pending, the text of every participant's editor is the room's
\* buffer.
Settled ==
  \A s \in Sockets : /\ net.toServer[s] = << >>
                     /\ net.toClient[s] = << >>
                     /\ ~net.peers[s].timeoutRef.pending

C31_Convergence ==
  Settled =>
    \A s \in Sockets :
      (R1 \in DOMAIN rooms /\ s \in DOMAIN rooms[R1].participants
         /\ ~net.isLoading[s])
      => net.peers[s].code = rooms[R1].code

\* C32: in every state a socket is in the broadcast group of a room id
\* exactly when that room exists and lists the socket as a participant.
C32_GroupIffParticipant ==
  \A s \in Sockets, r \in RoomIds :
    r \in socketRooms[s]
      <=> (r \in DOMAIN rooms /\ s \in DOMAIN rooms[r].participants)

\* C33: in every state every room of the registry has at least one
\* participant.
C33_NoEmptyRoom ==
  \A r \in DOMAIN rooms : DOMAIN rooms[r].participants # {}

\* C34: a code-change or language-change for a room that exists, sent by a
\* connection that is not in the room's participant set, is applied like
\* any other: the buffer and the language are replaced by the ones sent, the
\* only event emitted is the update to the members of the room's group other
\* than the sender, with updatedBy 'Unknown', and no error is sent.
Outsider(s, r) == r \in DOMAIN rooms /\ s \notin DOMAIN rooms[r].participants

Unknown == Str(<<"Unknown">>)

C34_EditsNeedNoMembership ==
  [][ /\ \A s \in Sockets : \A data \in CodeChangePayloads :
           (/\ last'.op = "code-change" /\ last'.socket = s
            /\ data.obj /\ Outsider(s, data.roomId)
            /\ CodeChange(s, data)) =>
             LET r == data.roomId
             IN  /\ data.code # Undefined => rooms'[r].code = data.code
                 /\ Truthy(data.language) => rooms'[r].language = data.language
                 /\ rooms'[r].participants = rooms[r].participants
                 /\ out' = { Msg("code-update", Group(socketRooms, r) \ {s},
                                 [code |-> rooms'[r].code,
                                  language |-> rooms'[r].language,
                                  updatedBy |-> Unknown]) }
      /\ \A s \in Sockets : \A data \in LanguageChangePayloads :
           (/\ last'.op = "language-change" /\ last'.socket = s
            /\ data.obj /\ Outsider(s, data.roomId)
            /\ LanguageChange(s, data)) =>
             LET r == data.roomId
             IN  /\ rooms'[r].language = data.language
                 /\ rooms'[r].participants = rooms[r].participants
                 /\ out' = { Msg("language-update", Group(socketRooms, r) \ {s},
                                 [language |-> data.language,
                                  updatedBy |-> Unknown]) }
    ]_vars

\* s2, which never joined R1, has replaced the buffer that s1 is editing,
\* and s1 is sent the update
C34_Witness ==
  /\ last.op = "code-change" /\ last.socket = "s2"
  /\ Outsider("s2", R1)
  /\ "s1" \in DOMAIN rooms[R1].participants
  /\ rooms[R1].code = CodeX
  /\ \E m \in out : /\ m.ev = "code-update" /\ m.to = {"s1"}
                    /\ m.payload.code = CodeX
                    /\ m.payload.updatedBy = Unknown

\* C35: while a child process of a request has been spawned and has not
\* closed, the request's workspace directory exists and holds the source
\* file.
C35_WorkspaceWhileChild ==
  \A id \in DOMAIN runs :
    runs[id].pc = "child" =>
      /\ runs[id].tempDir \in DOMAIN fs
      /\ "source" \in DOMAIN fs[runs[id].tempDir]

\* C36: a limitedSpawn call resolves once and only after its child's close
\* event.  A request is past "child" only through the close of its own
\* child; it waits for the cleanup only after a close, and the cleanup's
\* settling ends that wait.  From the close on, the timer is cancelled, the
\* closure (buffers, timedOut, outputTruncated, killed) does not change any
\* more, and the result that waits to be returned is the one built from it.
AwaitsCleanup(rs, id) == id \in DOMAIN rs /\ rs[id].pc = "cleanup"

C36_ResolvesOnceAfterClose ==
  [][ \A id \in Requests :
        /\ (/\ id \in DOMAIN runs /\ runs[id].pc = "child"
            /\ \/ id \notin DOMAIN runs'
               \/ runs'[id].pc # "child"
               \/ runs'[id].phase # runs[id].phase)
           => (last'.op = "close" /\ last'.req = id)
        /\ (AwaitsCleanup(runs', id) /\ ~AwaitsCleanup(runs, id))
           => (last'.op = "close" /\ last'.req = id)
        /\ (AwaitsCleanup(runs, id) /\ last'.op = "cleanup" /\ last'.req = id)
           => ~AwaitsCleanup(runs', id)
        /\ (id \in DOMAIN runs /\ runs[id].c.child = "closed"
            /\ id \in DOMAIN runs' /\ runs'[id].c.child = "closed")
           => runs'[id].c = runs[id].c
        /\ AwaitsCleanup(runs', id) =>
             LET c == runs'[id].c
                 res == runs'[id].res
             IN  /\ c.child = "closed" /\ ~c.timer
                 /\ res.timedOut = c.timedOut
                 /\ res.outputTruncated = c.outputTruncated
                 /\ res.stdout = toStringUtf8(c.stdout)
                 /\ res.stderr = toStringUtf8(c.stderr)
    ]_vars

\* a child closed before its time was up, and the time has passed while the
\* cleanup is awaited: the watchdog is no longer there to fire
C36_Witness ==
  \E id \in DOMAIN runs :
    /\ runs[id].pc = "cleanup"
    /\ now >= runs[id].c.spawnedAt + EXECUTION_TIMEOUT_MS
    /\ ~runs[id].c.timer /\ ~runs[id].c.timedOut /\ ~runs[id].res.timedOut
    /\ runs[id].res.stdout # << >>

\* C37: no step of a run-code request (the handler, the file system calls,
\* the child's events, the cleanup, the completion) changes the registry;
\* the request keeps the code string it was sent with, and the source file
\* its children run holds that string.
RunOps ==
  {"run-code", "mkdtemp", "writeFile", "child-error", "stdout-data",
   "stderr-data", "timeout", "close", "cleanup", "rm"}

C37_RunLeavesRegistry ==
  [][ /\ last'.op \in RunOps => rooms' = rooms
      /\ \A data \in AllRunPayloads :
           (/\ last'.op = "run-code" /\ runs' # runs
            /\ RunCode("s1", data)) =>
             \E id \in DOMAIN runs' \ DOMAIN runs : runs'[id].code = data.code
      /\ \A id \in DOMAIN runs \cap DOMAIN runs' : runs'[id].code = runs[id].code
      /\ \A id \in DOMAIN runs' :
           (runs'[id].pc = "child" /\ runs'[id].tempDir \in DOMAIN fs') =>
             fs'[runs'[id].tempDir] = [f \in {"source"} |-> runs'[id].code]
    ]_vars

\* node runs 'x' for a room whose buffer is still the welcome text
C37_Witness ==
  \E id \in DOMAIN runs :
    /\ runs[id].pc = "child" /\ runs[id].c.child = "running"
    /\ runs[id].tempDir \in DOMAIN fs
    /\ fs[runs[id].tempDir]["source"] = CodeX
    /\ runs[id].roomId \in DOMAIN rooms
    /\ rooms[runs[id].roomId].code = DefaultCode(R1)

\* C38: when an execution completes, its run-result is the only event
\* emitted and goes to the sockets that are in the group of the request's
\* room id in that moment: every socket in the group then, whenever it
\* joined, and no socket that has disconnected or moved to another room,
\* the requester included; this is so whether or not the registry still has
\* a room under that id.
C38_RecipientsAtCompletion ==
  [][ \A id \in DOMAIN runs :
        id \notin DOMAIN runs' =>
          LET r == runs[id]
          IN  \E m \in out' :
                /\ out' = {m}
                /\ m.ev = "run-result"
                /\ m.payload.roomId = r.roomId
                /\ m.payload.startedAt = r.startedAt
                /\ \A s \in Sockets :
                     s \in m.to <=> (/\ sockets[s] = "connected"
                                     /\ r.roomId \in socketRooms[s])
                /\ (sockets[r.socket] # "connected"
                      \/ socketRooms[r.socket] # {r.roomId}) => r.socket \notin m.to
    ]_vars

\* s1 asked for a run in R1 at time 0 and disconnected, which deleted R1;
\* s2 then created R1 again by joining it; the result of s1's run goes to s2
C38_Witness ==
  /\ last.op = "cleanup" /\ last.socket = "s1"
  /\ sockets["s1"] = "disconnected"
  /\ R1 \in DOMAIN rooms
  /\ rooms[R1].createdAt = EXECUTION_TIMEOUT_MS
  /\ rooms[R1].participants["s2"].joinedAt = EXECUTION_TIMEOUT_MS
  /\ \E m \in Events(out, "run-result") :
       /\ m.to = {"s2"}
       /\ m.payload.roomId = R1
       /\ m.payload.startedAt = 0
       /\ m.payload.initiatedBy = Trim(Ann)

\* C39: a browser that only receives room-state and code-update events,
\* whose user types nothing, starts no debounce timer and emits no
\* code-change: every change notification for an applied text finds
\* isReceivingUpdate set.
C39_AppliedTextNotEmitted ==
  /\ ~client.timeoutRef.pending
  /\ client.emitted.count = 0
====
